---- MODULE Spec2Model ----
(***************************************************************************)
(* Adaptive question sequencing: the difficulty optimizer                  *)
(* (backend/utils/dynamic_programming.py), the sequencing queue            *)
(* (backend/utils/queue_manager.py) and the question index                 *)
(* (backend/utils/tree_structure.py).                                      *)
(*                                                                         *)
(* Numbers.  Performance scores are kept in thousandths (1.0 = 1000), the  *)
(* rounded score of the cache key in hundredths, efficiencies and          *)
(* transition costs in hundredths, the trend factor in units of 1/2000 and *)
(* candidate values in units of 1/20000, so that every quantity the code   *)
(* computes is an exact integer here.  On every entry of the efficiency    *)
(* and cost tables the float64 evaluation of the code orders the four      *)
(* candidates exactly as the exact values do (ties included).              *)
(*                                                                         *)
(* An Optional[...] argument is a sequence of length at most one: <<>> is  *)
(* None.  A question is a record [id, subject, topic, difficulty].         *)
(***************************************************************************)
EXTENDS Integers, Sequences, FiniteSets, TLC

VARIABLES
    queue,               \* QuestionQueue.queue (front = index 1)
    adaptive_mode,       \* QuestionQueue.adaptive_mode
    answered_questions,  \* QuestionQueue.answered_questions
    performance_history, \* QuestionQueue.performance_history (1000 / 0)
    stats,               \* QuestionQueue.stats
    transition_cache,    \* QuestionQueue.difficulty_optimizer.transition_cache
    root,                \* QuestionTree.root
    total_questions,     \* QuestionTree.total_questions
    inserted,            \* history: the arguments of the add_question calls, in call order
    removed,             \* history: whether remove_question has been called
    drawn,               \* caller: the results of its get_next_question calls, in call order
    active_sessions,     \* routers/quiz.py active_sessions: session id -> QuestionQueue
    in_flight,           \* calls not yet returned: each thread's position and locals
    held_status,         \* caller: the dict its last get_queue_status call returned
    call,                \* the last call: [name, args]
    ret                  \* what the last call returned

vars == <<queue, adaptive_mode, answered_questions, performance_history, stats,
          transition_cache, root, total_questions, inserted, removed,
          drawn, active_sessions, in_flight, held_status, call, ret>>

queueVars == <<queue, adaptive_mode, answered_questions, performance_history,
               stats, transition_cache>>
treeVars == <<root, total_questions, inserted, removed>>

----------------------------------------------------------------------------
(* Bounds of the model *)

MaxAdded == 3
MaxAnswers == 3
MaxInserts == 3

----------------------------------------------------------------------------
(* models/question.py *)

DifficultyLevel == {"beginner", "intermediate", "advanced", "expert"}

Question(id, subject, topic, difficulty) ==
    [id |-> id, subject |-> subject, topic |-> topic, difficulty |-> difficulty]

\* the call a step makes
Called(name, args) == call' = [name |-> name, args |-> args]

----------------------------------------------------------------------------
(* Sequence helpers (Python list operations) *)

\* list[-n:]
LastN(s, n) == IF Len(s) <= n THEN s ELSE SubSeq(s, Len(s) - n + 1, Len(s))

\* list[:n], negative n counting from the end as Python slices do
Prefix(s, n) ==
    LET m == IF n < 0 THEN (IF Len(s) + n < 0 THEN 0 ELSE Len(s) + n)
             ELSE (IF n > Len(s) THEN Len(s) ELSE n)
    IN  SubSeq(s, 1, m)

\* list.insert(position, x) for 0 <= position <= len(list)
InsertAt(s, position, x) ==
    SubSeq(s, 1, position) \o <<x>> \o SubSeq(s, position + 1, Len(s))

RECURSIVE SumSeq(_)
SumSeq(s) == IF s = <<>> THEN 0 ELSE s[1] + SumSeq(Tail(s))

\* every ordering random.shuffle can produce
Shuffles(s) ==
    { [i \in 1..Len(s) |-> s[f[i]]] :
        f \in { g \in [1..Len(s) -> 1..Len(s)] :
                  \A i, j \in 1..Len(s) : i # j => g[i] # g[j] } }

----------------------------------------------------------------------------
(* utils/dynamic_programming.py : DifficultyOptimizer *)

difficulty_map ==
    [d \in DifficultyLevel |->
        CASE d = "beginner" -> 0
          [] d = "intermediate" -> 1
          [] d = "advanced" -> 2
          [] d = "expert" -> 3]

\* the reverse map holding the members' names instead of the members
reverse_difficulty_map_names ==
    [l \in 0..3 |->
        CASE l = 0 -> "BEGINNER"
          [] l = 1 -> "INTERMEDIATE"
          [] l = 2 -> "ADVANCED"
          [] l = 3 -> "EXPERT"]

reverse_difficulty_map ==
    [l \in 0..3 |-> CHOOSE d \in DifficultyLevel : difficulty_map[d] = l]

\* rows: performance category, columns: next level; hundredths
efficiency_matrix ==
    << <<90, 70, 30, 10>>,
       <<80, 90, 60, 30>>,
       <<60, 80, 80, 50>>,
       <<40, 60, 70, 60>> >>

\* transition_costs.get(level_change, 0.5); hundredths
transition_costs(level_change) ==
    CASE level_change = 0 -> 0
      [] level_change = 1 -> 10
      [] level_change = -1 -> 5
      [] level_change = 2 -> 30
      [] level_change = -2 -> 20
      [] level_change = 3 -> 50
      [] level_change = -3 -> 40
      [] OTHER -> 50

\* the categories with the boundary scores in the lower-performance category
get_performance_category_strict(performance_score) ==
    IF performance_score > 800 THEN 0
    ELSE IF performance_score > 600 THEN 1
    ELSE IF performance_score > 400 THEN 2
    ELSE 3

\* score in thousandths
get_performance_category(performance_score) ==
    IF performance_score >= 800 THEN 0
    ELSE IF performance_score >= 600 THEN 1
    ELSE IF performance_score >= 400 THEN 2
    ELSE 3

\* the trend taken between the first and the last entry of the whole history
calculate_trend_factor_whole(history) ==
    IF Len(history) < 3 THEN 2000
    ELSE LET raw == 2000 + (history[Len(history)] - history[1])
         IN  IF raw < 1000 THEN 1000 ELSE IF raw > 3000 THEN 3000 ELSE raw

\* the trend factor in units of 1/2000 (1.0 = 2000), history in thousandths
calculate_trend_factor(history) ==
    IF Len(history) < 3 THEN 2000
    ELSE LET recent_scores == LastN(history, 3)
             \* trend = (last - first) / (len - 1), len = 3
             trend == recent_scores[3] - recent_scores[1]
             raw == 2000 + trend
         IN  IF raw < 1000 THEN 1000 ELSE IF raw > 3000 THEN 3000 ELSE raw

\* the value with the trend factor scaling the efficiency:
\* efficiency * trend_factor - transition_cost, in units of 1/20000
total_value_trend_scales(current_level, perf_category, next_level, history) ==
    LET level_change == next_level - current_level
        transition_cost == transition_costs(level_change)
        efficiency == efficiency_matrix[perf_category + 1][next_level + 1]
        trend_factor == IF history # <<>>
                        THEN calculate_trend_factor(history)
                        ELSE 2000
    IN  (efficiency * trend_factor) \div 10 - 200 * transition_cost

\* efficiency - transition_cost + trend_factor * 0.1, in units of 1/20000
total_value(current_level, perf_category, next_level, history) ==
    LET level_change == next_level - current_level
        transition_cost == transition_costs(level_change)
        efficiency == efficiency_matrix[perf_category + 1][next_level + 1]
        trend_factor == IF history # <<>>
                        THEN calculate_trend_factor(history)
                        ELSE 2000
    IN  200 * efficiency - 200 * transition_cost + trend_factor

\* the loop "for next_level in range(4)" from next_level on; acc = [max_value, optimal_level],
\* max_value = <<>> standing for -inf
RECURSIVE transition_loop(_, _, _, _, _)
transition_loop(next_level, acc, current_level, perf_category, history) ==
    IF next_level > 3 THEN acc.optimal_level
    ELSE LET v == total_value(current_level, perf_category, next_level, history)
             better == acc.max_value = <<>> \/ v > acc.max_value[1]
         IN  transition_loop(next_level + 1,
                 IF better THEN [max_value |-> <<v>>, optimal_level |-> next_level] ELSE acc,
                 current_level, perf_category, history)

calculate_optimal_transition(current_level, performance_score, history) ==
    transition_loop(0, [max_value |-> <<>>, optimal_level |-> current_level],
                    current_level, get_performance_category(performance_score),
                    history)

\* round(performance_score, 2): thousandths to hundredths.  Exact for the scores a
\* queue produces (0, 1/3, 2/3, 1 -> 0.0, 0.33, 0.67, 1.0).
round2(performance_score) == (performance_score + 5) \div 10

\* the key built from the score as it is, without round(performance_score, 2)
cache_key_unrounded(current_level, performance_score) ==
    <<current_level, performance_score>>

cache_key(current_level, performance_score) == <<current_level, round2(performance_score)>>

\* get_optimal_next_difficulty without the store of line 80
get_optimal_next_difficulty_unstored(cache, current_difficulty, performance_score, history) ==
    LET current_level == difficulty_map[current_difficulty]
        key == cache_key(current_level, performance_score)
    IN  IF key \in DOMAIN cache
        THEN [difficulty |-> reverse_difficulty_map[cache[key]], cache |-> cache]
        ELSE [difficulty |-> reverse_difficulty_map[calculate_optimal_transition(
                                 current_level, performance_score, history)],
              cache |-> cache]

\* get_optimal_next_difficulty on the cache `cache`: the difficulty returned and the
\* cache afterwards
get_optimal_next_difficulty(cache, current_difficulty, performance_score, history) ==
    LET current_level == difficulty_map[current_difficulty]
        key == cache_key(current_level, performance_score)
    IN  IF key \in DOMAIN cache
        THEN [difficulty |-> reverse_difficulty_map[cache[key]], cache |-> cache]
        ELSE LET optimal_level == calculate_optimal_transition(
                                      current_level, performance_score, history)
             IN  [difficulty |-> reverse_difficulty_map[optimal_level],
                  cache |-> [k \in DOMAIN cache \cup {key} |->
                                IF k = key THEN optimal_level ELSE cache[k]]]

----------------------------------------------------------------------------
(* utils/queue_manager.py : QuestionQueue *)

\* the questions the callers of the model hand to the queue
b1 == Question(1, "Mathematics", "Basic Math", "beginner")
a1 == Question(2, "Mathematics", "Calculus", "advanced")
i1 == Question(3, "Mathematics", "Algebra", "intermediate")
b2 == Question(4, "Mathematics", "Basic Math", "beginner")
e1 == Question(5, "Mathematics", "Calculus", "expert")

AllQuestions == {b1, a1, i1, b2, e1}
QueuePool == {b1, a1, b2}
AnswerPool == {e1}
Batches == { <<b1, a1, b2>>, <<i1, e1>>, <<>> }
Priorities == {"high", "low", "HIGH"}

\* self.stats after __init__ and after _reset_stats
reset_stats ==
    [total_added |-> 0, total_served |-> 0, current_size |-> 0,
     difficulty_distribution |-> [d \in DifficultyLevel |-> 0]]

\* _update_stats leaving current_size as it was
update_stats_stale(st, q) == st

\* _update_stats
update_stats(st, q) == [st EXCEPT !.current_size = Len(q)]

\* stats['total_added'] += 1; stats['difficulty_distribution'][difficulty] += 1
count_added(st, question) ==
    [st EXCEPT !.total_added = @ + 1,
               !.difficulty_distribution[question.difficulty] = @ + 1]

\* the loop of add_questions over question_list
RECURSIVE add_loop(_, _, _)
add_loop(question_list, q, st) ==
    IF question_list = <<>> THEN [queue |-> q, stats |-> st]
    ELSE add_loop(Tail(question_list), Append(q, Head(question_list)),
                  count_added(st, Head(question_list)))

\* _get_current_difficulty_level
get_current_difficulty_level(answered) ==
    IF answered = <<>> THEN "intermediate"
    ELSE answered[Len(answered)].difficulty

\* sum(performance_history[-3:]) / 3, in thousandths
recent_performance(history) == SumSeq(LastN(history, 3)) \div 3

\* the loop of _reorder_by_difficulty without its else: every question goes to
\* other_questions, the target ones to target_questions as well
RECURSIVE separate_without_else(_, _, _, _)
separate_without_else(queue_list, target_difficulty, target_questions, other_questions) ==
    IF queue_list = <<>>
    THEN [target_questions |-> target_questions, other_questions |-> other_questions]
    ELSE separate_without_else(Tail(queue_list), target_difficulty,
             IF Head(queue_list).difficulty = target_difficulty
             THEN Append(target_questions, Head(queue_list)) ELSE target_questions,
             Append(other_questions, Head(queue_list)))

\* the loop of _reorder_by_difficulty over queue_list: [target_questions, other_questions]
RECURSIVE separate(_, _, _, _)
separate(queue_list, target_difficulty, target_questions, other_questions) ==
    IF queue_list = <<>>
    THEN [target_questions |-> target_questions, other_questions |-> other_questions]
    ELSE IF Head(queue_list).difficulty = target_difficulty
         THEN separate(Tail(queue_list), target_difficulty,
                       Append(target_questions, Head(queue_list)), other_questions)
         ELSE separate(Tail(queue_list), target_difficulty,
                       target_questions, Append(other_questions, Head(queue_list)))

\* _reorder_by_difficulty with the two final loops in the other order
reorder_by_difficulty_others_first(q, target_difficulty) ==
    LET parts == separate(q, target_difficulty, <<>>, <<>>)
    IN  parts.other_questions \o parts.target_questions

\* the reordering that keeps the target questions alone when there are any
reorder_by_difficulty_targets_only(q, target_difficulty) ==
    LET parts == separate(q, target_difficulty, <<>>, <<>>)
    IN  IF parts.target_questions # <<>> THEN parts.target_questions ELSE q

\* _reorder_by_difficulty: the queue afterwards
reorder_by_difficulty(q, target_difficulty) ==
    LET parts == separate(q, target_difficulty, <<>>, <<>>)
    IN  parts.target_questions \o parts.other_questions

\* _apply_adaptive_ordering returning at once only below two answers
adaptive_reorders_early(history) == ~(Len(history) < 2)

\* the history length below which _apply_adaptive_ordering returns at once
adaptive_reorders(history) == ~(Len(history) < 3)

\* _apply_adaptive_ordering: the queue and the optimizer cache afterwards
apply_adaptive_ordering(q, history, answered, cache) ==
    IF ~adaptive_reorders(history) THEN [queue |-> q, cache |-> cache]
    ELSE LET current_difficulty == get_current_difficulty_level(answered)
             optimal == get_optimal_next_difficulty(
                            cache, current_difficulty, recent_performance(history), <<>>)
         IN  [queue |-> reorder_by_difficulty(q, optimal.difficulty),
              cache |-> optimal.cache]

\* get_next_question reordering whatever adaptive_mode says
before_pop_ignores_mode(q, adaptive, history, answered, cache) ==
    IF history # <<>>
    THEN apply_adaptive_ordering(q, history, answered, cache)
    ELSE [queue |-> q, cache |-> cache]

\* get_next_question reordering when adaptive_mode is off
before_pop_mode_inverted(q, adaptive, history, answered, cache) ==
    IF ~adaptive /\ history # <<>>
    THEN apply_adaptive_ordering(q, history, answered, cache)
    ELSE [queue |-> q, cache |-> cache]

\* the queue and cache get_next_question pops from
before_pop(q, adaptive, history, answered, cache) ==
    IF adaptive /\ history # <<>>
    THEN apply_adaptive_ordering(q, history, answered, cache)
    ELSE [queue |-> q, cache |-> cache]

\* add_question_priority with append and appendleft exchanged
place_priority_swapped(q, question, priority) ==
    IF priority = "high" THEN Append(q, question) ELSE <<question>> \o q

\* the deque after add_question_priority placed the question
place_priority(q, question, priority) ==
    IF priority = "high" THEN <<question>> \o q ELSE Append(q, question)

\* insert_at_position sending out-of-range positions to the front
clamp_position_front(position, q) ==
    IF position < 0 \/ position > Len(q) THEN 0 ELSE position

\* the position insert_at_position inserts at
clamp_position(position, q) ==
    IF position < 0 \/ position > Len(q) THEN Len(q) ELSE position

\* peek_next_question
peek_next_question(q) == IF q = <<>> THEN <<>> ELSE <<q[1]>>

\* peek_questions taking the slice from the back of the list
peek_questions_from_back(q, count) == LastN(q, IF count < 0 THEN 0 ELSE count)

\* peek_questions
peek_questions(q, count) == Prefix(q, count)

\* record_answer's trim without the pop
trim_history_unbounded(h) == h

\* record_answer: if len(performance_history) > 10, pop(0)
trim_history(h) == IF Len(h) > 10 THEN Tail(h) ELSE h

QueueInit ==
    /\ queue = <<>>
    /\ answered_questions = <<>>
    /\ performance_history = <<>>
    /\ stats = reset_stats
    /\ transition_cache = <<>>

AddQuestions(questions, randomize) ==
    /\ \E question_list \in (IF randomize THEN Shuffles(questions) ELSE {questions}) :
          LET r == add_loop(question_list, queue, stats)
          IN  /\ queue' = r.queue
              /\ stats' = update_stats(r.stats, r.queue)
    /\ Called("add_questions", <<questions, randomize>>)
    /\ ret' = <<>>
    /\ UNCHANGED <<adaptive_mode, answered_questions, performance_history,
                   transition_cache>>

AddQuestionPriority(question, priority) ==
    /\ queue' = place_priority(queue, question, priority)
    /\ stats' = update_stats(count_added(stats, question), queue')
    /\ Called("add_question_priority", <<question, priority>>)
    /\ ret' = <<>>
    /\ UNCHANGED <<adaptive_mode, answered_questions, performance_history,
                   transition_cache>>

InsertAtPosition(question, position) ==
    /\ queue' = InsertAt(queue, clamp_position(position, queue), question)
    /\ stats' = update_stats(count_added(stats, question), queue')
    /\ Called("insert_at_position", <<question, position>>)
    /\ ret' = <<>>
    /\ UNCHANGED <<adaptive_mode, answered_questions, performance_history,
                   transition_cache>>

\* get_next_question counting a served question on the empty queue too
GetNextQuestion_counts_empty ==
    /\ IF queue = <<>>
       THEN /\ ret' = <<>>
            /\ stats' = update_stats([stats EXCEPT !.total_served = @ + 1], queue)
            /\ UNCHANGED <<queue, transition_cache>>
       ELSE LET r == before_pop(queue, adaptive_mode, performance_history,
                                answered_questions, transition_cache)
            IN  /\ ret' = <<Head(r.queue)>>
                /\ queue' = Tail(r.queue)
                /\ stats' = update_stats([stats EXCEPT !.total_served = @ + 1], queue')
                /\ transition_cache' = r.cache
    /\ Called("get_next_question", <<>>)
    /\ UNCHANGED <<adaptive_mode, answered_questions, performance_history>>

GetNextQuestion ==
    /\ IF queue = <<>>
       THEN /\ ret' = <<>>
            /\ UNCHANGED <<queue, stats, transition_cache>>
       ELSE LET r == before_pop(queue, adaptive_mode, performance_history,
                                answered_questions, transition_cache)
            IN  /\ ret' = <<Head(r.queue)>>
                /\ queue' = Tail(r.queue)
                /\ stats' = update_stats([stats EXCEPT !.total_served = @ + 1], queue')
                /\ transition_cache' = r.cache
    /\ Called("get_next_question", <<>>)
    /\ UNCHANGED <<adaptive_mode, answered_questions, performance_history>>

RecordAnswer(question, is_correct, time_taken) ==
    /\ answered_questions' = Append(answered_questions,
           [question |-> question, is_correct |-> is_correct,
            time_taken |-> time_taken, difficulty |-> question.difficulty])
    /\ LET h == Append(performance_history, IF is_correct THEN 1000 ELSE 0)
       IN  performance_history' = trim_history(h)
    /\ Called("record_answer", <<question, is_correct, time_taken>>)
    /\ ret' = <<>>
    /\ UNCHANGED <<queue, adaptive_mode, stats, transition_cache>>

PeekNextQuestion ==
    /\ ret' = peek_next_question(queue)
    /\ Called("peek_next_question", <<>>)
    /\ UNCHANGED <<queue, adaptive_mode, answered_questions, performance_history, stats,
                   transition_cache>>

PeekQuestions(count) ==
    /\ ret' = peek_questions(queue, count)
    /\ Called("peek_questions", <<count>>)
    /\ UNCHANGED <<queue, adaptive_mode, answered_questions, performance_history, stats,
                   transition_cache>>

ShuffleQueue ==
    /\ \E queue_list \in Shuffles(queue) : queue' = queue_list
    /\ Called("shuffle_queue", <<>>)
    /\ ret' = <<>>
    /\ UNCHANGED <<adaptive_mode, answered_questions, performance_history, stats,
                   transition_cache>>

----------------------------------------------------------------------------
(* utils/tree_structure.py : QuestionNode, QuestionTree *)

\* "if x:" on an Optional[str]: None and "" are both false
TruthyStr(opt) == opt # <<>> /\ opt[1] # ""

\* "if x:" on an Optional[int]: None and 0 are both false
TruthyInt(opt) == opt # <<>> /\ opt[1] # 0

\* str(question.id)
IdStr(id) == ToString(id)

RECURSIVE Concat(_)
Concat(ss) == IF ss = <<>> THEN <<>> ELSE Head(ss) \o Concat(Tail(ss))

\* QuestionNode.__init__; keys is the insertion order of the children dict
QuestionNode(value, node_type) ==
    [value |-> value, node_type |-> node_type, keys |-> <<>>,
     children |-> [k \in {} |-> <<>>], questions |-> <<>>,
     metadata |-> [count |-> 0]]

\* QuestionNode.add_child
add_child(node, key, child) ==
    [node EXCEPT
        !.keys = IF key \in DOMAIN node.children THEN @ ELSE Append(@, key),
        !.children = [k \in DOMAIN node.children \cup {key} |->
                         IF k = key THEN child ELSE node.children[k]],
        !.metadata.count = @ + 1]

\* QuestionNode.get_child: Optional[QuestionNode]
get_child(node, key) ==
    IF key \in DOMAIN node.children THEN <<node.children[key]>> ELSE <<>>

\* list(node.children.values())
child_values(node) == [i \in 1..Len(node.keys) |-> node.children[node.keys[i]]]

\* QuestionNode.get_all_questions
RECURSIVE get_all_questions(_)
get_all_questions(node) ==
    node.questions \o
    Concat([i \in 1..Len(node.keys) |-> get_all_questions(node.children[node.keys[i]])])

\* add_question creating the node without looking for it: every call adds a child
ensure_child_always(node, key, value, node_type) ==
    add_child(node, key, QuestionNode(value, node_type))

\* the node a missing child is created as
ensure_child(node, key, value, node_type) ==
    IF get_child(node, key) = <<>>
    THEN add_child(node, key, QuestionNode(value, node_type))
    ELSE node

\* add_question filing the subject node under the question's topic
subject_key_topic(question) == question.topic

\* add_question inserting the question at the head of the node's list
append_question_front(questions, question) == <<question>> \o questions

\* the key add_question files a question's subject node under
subject_key(question) == question.subject

\* difficulty_node.questions.append(question)
append_question(questions, question) == Append(questions, question)

\* QuestionTree.add_question: the root afterwards
add_question(tree_root, question) ==
    LET root1 == ensure_child(tree_root, subject_key(question), question.subject, "subject")
        subject_node == ensure_child(root1.children[subject_key(question)],
                                     question.topic, question.topic, "topic")
        difficulty_key == question.difficulty
        topic_node == ensure_child(subject_node.children[question.topic],
                                   difficulty_key, question.difficulty, "difficulty")
        difficulty_node == [topic_node.children[difficulty_key] EXCEPT
                               !.questions = append_question(@, question)]
        topic_node2 == [topic_node EXCEPT !.children[difficulty_key] = difficulty_node]
        subject_node2 == [subject_node EXCEPT !.children[question.topic] = topic_node2]
    IN  [root1 EXCEPT !.children[subject_key(question)] = subject_node2]

\* "Filter by topic": the topic nodes of search_nodes
filter_topic(search_nodes, topic) ==
    Concat([i \in 1..Len(search_nodes) |-> get_child(search_nodes[i], topic)])

\* "Filter by difficulty" without the branch for subject nodes
difficulty_nodes_of_topic_only(node, difficulty) ==
    IF node.node_type = "topic" THEN get_child(node, difficulty) ELSE <<>>

\* "Filter by difficulty": the difficulty nodes reached from one search node
difficulty_nodes_of(node, difficulty) ==
    IF node.node_type = "topic" THEN get_child(node, difficulty)
    ELSE IF node.node_type = "subject"
         THEN filter_topic(child_values(node), difficulty)
         ELSE <<>>

filter_difficulty(search_nodes, difficulty) ==
    Concat([i \in 1..Len(search_nodes) |-> difficulty_nodes_of(search_nodes[i], difficulty)])

\* the limit keeping the last `limit` questions, questions[-limit:]
apply_limit_last(questions, limit) ==
    IF TruthyInt(limit) /\ Len(questions) > limit[1]
    THEN LastN(questions, limit[1])
    ELSE questions

\* "Apply limit if specified"
apply_limit(questions, limit) ==
    IF TruthyInt(limit) /\ Len(questions) > limit[1]
    THEN Prefix(questions, limit[1])
    ELSE questions

\* QuestionTree.get_questions_by_criteria
get_questions_by_criteria(tree_root, subject, topic, difficulty, limit) ==
    IF TruthyStr(subject) /\ get_child(tree_root, subject[1]) = <<>> THEN <<>>
    ELSE LET nodes1 == IF TruthyStr(subject) THEN get_child(tree_root, subject[1])
                       ELSE child_values(tree_root)
             nodes2 == IF TruthyStr(topic) THEN filter_topic(nodes1, topic[1]) ELSE nodes1
             nodes3 == IF difficulty # <<>> THEN filter_difficulty(nodes2, difficulty[1])
                       ELSE nodes2
             questions == Concat([i \in 1..Len(nodes3) |-> get_all_questions(nodes3[i])])
         IN  apply_limit(questions, limit)

\* whether get_statistics reaches line 177, where it reads the undefined name
\* topic_stats: the first subject node that has a topic node
reaches_topic_stats(tree_root) ==
    \E s \in DOMAIN tree_root.children : tree_root.children[s].keys # <<>>

\* QuestionTree.get_statistics: raised = "NameError" when line 177 is reached
get_statistics(tree_root, total) ==
    IF reaches_topic_stats(tree_root)
    THEN [raised |-> "NameError", total_questions |-> 0, subjects |-> 0,
          subjects_detail |-> <<>>]
    ELSE [raised |-> "", total_questions |-> total,
          subjects |-> Cardinality(DOMAIN tree_root.children),
          subjects_detail |->
              [s \in DOMAIN tree_root.children |->
                  [topics |-> Cardinality(DOMAIN tree_root.children[s].children),
                   total_questions |-> Len(get_all_questions(tree_root.children[s]))]]]

\* search_and_remove comparing with != : the first question whose id differs
first_match_unequal(questions, question_id) ==
    IF \E i \in 1..Len(questions) : IdStr(questions[i].id) # question_id
    THEN CHOOSE i \in 1..Len(questions) :
            /\ IdStr(questions[i].id) # question_id
            /\ \A j \in 1..(i - 1) : IdStr(questions[j].id) = question_id
    ELSE 0

\* node.questions.pop() without the index: the last question goes
pop_at_last(questions, i) == SubSeq(questions, 1, Len(questions) - 1)

\* the removal dropping every question that has the id of the i-th
pop_at_every_match(questions, i) ==
    SelectSeq(questions, LAMBDA q : q.id # questions[i].id)

\* node.questions.pop(i), i counted from 1
pop_at(questions, i) == SubSeq(questions, 1, i - 1) \o SubSeq(questions, i + 1, Len(questions))

\* the index of the first question of `questions` whose id is question_id, 0 if none
first_match(questions, question_id) ==
    IF \E i \in 1..Len(questions) : IdStr(questions[i].id) = question_id
    THEN CHOOSE i \in 1..Len(questions) :
            /\ IdStr(questions[i].id) = question_id
            /\ \A j \in 1..(i - 1) : IdStr(questions[j].id) # question_id
    ELSE 0

\* remove_question.search_and_remove: [found, node afterwards]; remove_in_children
\* is its loop over node.children.values() from the i-th child on
RECURSIVE search_and_remove(_, _), remove_in_children(_, _, _)
search_and_remove(node, question_id) ==
    LET i == first_match(node.questions, question_id)
    IN  IF i # 0
        THEN [found |-> TRUE,
              node |-> [node EXCEPT !.questions = pop_at(@, i)]]
        ELSE remove_in_children(node, 1, question_id)

remove_in_children(node, i, question_id) ==
    IF i > Len(node.keys) THEN [found |-> FALSE, node |-> node]
    ELSE LET r == search_and_remove(node.children[node.keys[i]], question_id)
         IN  IF r.found
             THEN [found |-> TRUE,
                   node |-> [node EXCEPT !.children[node.keys[i]] = r.node]]
             ELSE remove_in_children(node, i + 1, question_id)

TreeInit ==
    /\ root = QuestionNode("root", "root")
    /\ total_questions = 0
    /\ inserted = <<>>
    /\ removed = FALSE

AddQuestion(question) ==
    /\ root' = add_question(root, question)
    /\ total_questions' = total_questions + 1
    /\ inserted' = Append(inserted, question)
    /\ Called("add_question", <<question>>)
    /\ ret' = <<>>
    /\ UNCHANGED removed

GetQuestionsByCriteria(subject, topic, difficulty, limit) ==
    /\ ret' = get_questions_by_criteria(root, subject, topic, difficulty, limit)
    /\ Called("get_questions_by_criteria", <<subject, topic, difficulty, limit>>)
    /\ UNCHANGED <<root, total_questions, inserted, removed>>

GetStatistics ==
    /\ ret' = get_statistics(root, total_questions)
    /\ Called("get_statistics", <<>>)
    /\ UNCHANGED <<root, total_questions, inserted, removed>>

\* a node without the children that hold neither questions nor children
RECURSIVE prune(_)
prune(node) ==
    LET pruned == [k \in DOMAIN node.children |-> prune(node.children[k])]
        kept == {k \in DOMAIN node.children :
                    pruned[k].questions # <<>> \/ DOMAIN pruned[k].children # {}}
    IN  [node EXCEPT
            !.keys = SelectSeq(@, LAMBDA k : k \in kept),
            !.children = [k \in kept |-> pruned[k]],
            !.metadata.count = Cardinality(kept)]

\* remove_question deleting the nodes its removal leaves empty
RemoveQuestion_prunes_empty(question_id) ==
    /\ LET r == search_and_remove(root, question_id)
       IN  /\ root' = prune(r.node)
           /\ total_questions' = IF r.found THEN total_questions - 1 ELSE total_questions
           /\ ret' = r.found
    /\ removed' = TRUE
    /\ Called("remove_question", <<question_id>>)
    /\ UNCHANGED inserted

\* QuestionTree.get_tree_structure: build_structure from the root
RECURSIVE build_structure(_)
build_structure(node) ==
    [type |-> node.node_type,
     value |-> node.value,
     question_count |-> Len(node.questions),
     total_count |-> node.metadata.count,
     children |-> [k \in DOMAIN node.children |-> build_structure(node.children[k])]]

get_tree_structure(tree_root) == build_structure(tree_root)

RemoveQuestion(question_id) ==
    /\ LET r == search_and_remove(root, question_id)
       IN  /\ root' = r.node
           /\ total_questions' = IF r.found THEN total_questions - 1 ELSE total_questions
           /\ ret' = r.found
    /\ removed' = TRUE
    /\ Called("remove_question", <<question_id>>)
    /\ UNCHANGED inserted

----------------------------------------------------------------------------
(* The queue under arbitrary calls *)

Init ==
    /\ QueueInit
    /\ adaptive_mode \in BOOLEAN
    /\ TreeInit
    /\ drawn = <<>>
    /\ active_sessions = <<>>
    /\ in_flight = <<>>
    /\ held_status = <<>>
    /\ call = [name |-> "init", args |-> <<>>]
    /\ ret = <<>>

QueueOnly == UNCHANGED <<root, total_questions, inserted, removed, drawn, active_sessions, in_flight, held_status>>

Next ==
    \/ \E questions \in Batches, randomize \in BOOLEAN :
          /\ stats.total_added + Len(questions) <= MaxAdded
          /\ AddQuestions(questions, randomize)
          /\ QueueOnly
    \/ \E question \in QueuePool, priority \in Priorities :
          /\ stats.total_added < MaxAdded
          /\ AddQuestionPriority(question, priority)
          /\ QueueOnly
    \/ \E question \in QueuePool, position \in -1..(Len(queue) + 1) :
          /\ stats.total_added < MaxAdded
          /\ InsertAtPosition(question, position)
          /\ QueueOnly
    \/ GetNextQuestion /\ QueueOnly
    \/ \E question \in AnswerPool, is_correct \in BOOLEAN :
          /\ Len(answered_questions) < MaxAnswers
          /\ RecordAnswer(question, is_correct, 5)
          /\ QueueOnly
    \/ ShuffleQueue /\ QueueOnly

Spec == Init /\ [][Next]_vars

----------------------------------------------------------------------------
(* The index under arbitrary calls *)

\* the questions the callers of the model hand to the index
m1 == Question(11, "Mathematics", "Algebra", "beginner")
m2 == Question(12, "Mathematics", "Geometry", "intermediate")
m3 == Question(13, "Mathematics", "Algebra", "advanced")
s1 == Question(14, "Science", "Algebra", "beginner")
m4 == Question(15, "Mathematics", "Algebra", "beginner")

TreePool == {m1, m2, m3, s1, m4}
SubjectArgs == { <<>>, <<"">>, <<"Mathematics">>, <<"Science">> }
TopicArgs == { <<>>, <<"">>, <<"Algebra">> }
DifficultyArgs == { <<>>, <<"beginner">> }
LimitArgs == { <<>>, <<2>> }
RemoveArgs == { IdStr(11), IdStr(99) }

TreeSpecInit ==
    /\ QueueInit
    /\ adaptive_mode = TRUE
    /\ TreeInit
    /\ drawn = <<>>
    /\ active_sessions = <<>>
    /\ in_flight = <<>>
    /\ held_status = <<>>
    /\ call = [name |-> "init", args |-> <<>>]
    /\ ret = <<>>

TreeOnly ==
    UNCHANGED <<queue, adaptive_mode, answered_questions, performance_history, stats,
                transition_cache, drawn, active_sessions, in_flight, held_status>>

TreeNext ==
    \/ \E question \in TreePool :
          /\ Len(inserted) < MaxInserts
          /\ AddQuestion(question)
          /\ TreeOnly
    \/ \E subject \in SubjectArgs, topic \in TopicArgs,
          difficulty \in DifficultyArgs, limit \in LimitArgs :
          GetQuestionsByCriteria(subject, topic, difficulty, limit) /\ TreeOnly
    \/ GetStatistics /\ TreeOnly
    \/ \E question_id \in RemoveArgs : RemoveQuestion(question_id) /\ TreeOnly

TreeSpec == TreeSpecInit /\ [][TreeNext]_vars

----------------------------------------------------------------------------
(* The reordering scenario: an adaptive queue loaded once with
   [beginner, advanced, intermediate, beginner], then answers and next() *)

ScenarioQueue == <<b1, a1, i1, b2>>
ScenarioAnswered == {b1, i1, a1, e1}

ScenarioNext ==
    \/ /\ stats.total_added = 0
       /\ AddQuestions(ScenarioQueue, FALSE)
       /\ QueueOnly
    \/ \E question \in ScenarioAnswered, is_correct \in BOOLEAN :
          /\ Len(answered_questions) < MaxAnswers
          /\ RecordAnswer(question, is_correct, 5)
          /\ QueueOnly
    \/ /\ stats.total_added > 0
       /\ GetNextQuestion
       /\ QueueOnly

ReorderScenario == TreeSpecInit /\ [][ScenarioNext]_vars

----------------------------------------------------------------------------
(* The end-to-end scenario: a beginner, an intermediate and an advanced question
   inserted in that order into a fresh index under subject "Math", a queue built
   from query(subject="Math") with randomize=False, then next() and answers *)

EndToEndDifficulties == <<"beginner", "intermediate", "advanced">>
EndToEndTopics == {"Algebra", "Geometry"}
EndToEndSubject == <<"Math">>

TreeUnchanged == UNCHANGED <<root, total_questions, inserted, removed, active_sessions, in_flight, held_status>>

EndToEndNext ==
    \/ \E topic \in EndToEndTopics :
          /\ Len(inserted) < Len(EndToEndDifficulties)
          /\ AddQuestion(Question(21 + Len(inserted), EndToEndSubject[1], topic,
                                  EndToEndDifficulties[Len(inserted) + 1]))
          /\ TreeOnly
    \/ /\ Len(inserted) = Len(EndToEndDifficulties)
       /\ call.name = "add_question"
       /\ GetQuestionsByCriteria(EndToEndSubject, <<>>, <<>>, <<>>)
       /\ TreeOnly
    \/ /\ call.name = "get_questions_by_criteria"
       /\ AddQuestions(ret, FALSE)
       /\ TreeUnchanged
       /\ UNCHANGED drawn
    \/ /\ stats.total_added > 0
       /\ queue # <<>>
       /\ GetNextQuestion
       /\ drawn' = Append(drawn, ret'[1])
       /\ TreeUnchanged
    \/ \E i \in 1..Len(inserted), is_correct \in BOOLEAN :
          /\ stats.total_added > 0
          /\ Len(answered_questions) < MaxAnswers
          /\ RecordAnswer(inserted[i], is_correct, 5)
          /\ TreeUnchanged
          /\ UNCHANGED drawn

EndToEnd == TreeSpecInit /\ [][EndToEndNext]_vars

----------------------------------------------------------------------------
(* Properties of the queue (specification Spec) *)

\* the state in which get_next_question reorders before it pops
Reordering == adaptive_mode /\ Len(performance_history) >= 3

\* the mean of the last three history values, in thousandths
MeanOfLastThree ==
    LET n == Len(performance_history)
    IN  (performance_history[n - 2] + performance_history[n - 1] + performance_history[n]) \div 3

\* the difficulty of the most recently answered question
LastAnsweredDifficulty == answered_questions[Len(answered_questions)].question.difficulty

\* T: what the optimizer returns for (LastAnsweredDifficulty, MeanOfLastThree)
TargetDifficulty ==
    get_optimal_next_difficulty(transition_cache, LastAnsweredDifficulty,
                                MeanOfLastThree, <<>>).difficulty

OfTarget(q) == SelectSeq(q, LAMBDA x : x.difficulty = TargetDifficulty)
NotOfTarget(q) == SelectSeq(q, LAMBDA x : x.difficulty # TargetDifficulty)

NextCalled == call'.name = "get_next_question"

\* C1: get_next_question on a non-empty queue in adaptive mode with at least 3 history
\* entries returns the first queued question of the target difficulty T (the front when
\* there is none) and leaves the remaining T-questions, in their original order,
\* followed by all other questions, in their original order.
C1_StablePartition ==
    [][ (NextCalled /\ queue # <<>> /\ Reordering) =>
            /\ ret' = <<IF OfTarget(queue) # <<>> THEN OfTarget(queue)[1] ELSE queue[1]>>
            /\ queue' = Tail(OfTarget(queue) \o NotOfTarget(queue)) ]_vars

\* a reordering get_next_question has served a T-question and left a T-question in
\* front of a question of another difficulty
C1_Witness ==
    /\ call.name = "get_next_question"
    /\ Reordering
    /\ Len(queue) >= 2
    /\ ret # <<>>
    /\ ret[1].difficulty = TargetDifficulty
    /\ queue[1].difficulty = TargetDifficulty
    /\ queue[2].difficulty # TargetDifficulty
    /\ LastAnsweredDifficulty # "expert"

\* C3: right after add_question_priority(q, "high") peek_next_question returns q; with
\* any other priority string q is the last element of the queue.
C3_PriorityPlacement ==
    call.name = "add_question_priority" =>
        IF call.args[2] = "high"
        THEN peek_next_question(queue) = <<call.args[1]>>
        ELSE queue # <<>> /\ queue[Len(queue)] = call.args[1]

\* a high-priority question was put in front of a non-empty queue that reorders
C3_Witness ==
    /\ call.name = "add_question_priority"
    /\ call.args[2] = "high"
    /\ Len(queue) >= 3
    /\ Reordering

\* a queued question of the target difficulty overtakes the front question q
Overtaken(q) ==
    /\ Reordering
    /\ q.difficulty # TargetDifficulty
    /\ OfTarget(queue) # <<>>

\* C4 as claimed: the first get_next_question after add_question_priority(q, "high")
\* returns q, in every queue state.
C4_Original ==
    [][ (call.name = "add_question_priority" /\ call.args[2] = "high" /\ NextCalled)
            => ret' = <<call.args[1]>> ]_vars

\* C4 as amended: add_question_priority(q, "high") puts q at the front, record_answer
\* leaves the queue as it is, and get_next_question returns the front question q unless
\* the queue reorders (adaptive mode, at least 3 answers), q is not of the target
\* difficulty and a question of the target difficulty is queued: then it returns the
\* first queued question of the target difficulty.
C4_HighPriorityServedNext ==
    [][ /\ (call'.name = "add_question_priority" /\ call'.args[2] = "high")
              => (queue' # <<>> /\ queue'[1] = call'.args[1])
        /\ call'.name = "record_answer" => queue' = queue
        /\ (NextCalled /\ queue # <<>>) =>
              ret' = <<IF Overtaken(queue[1]) THEN OfTarget(queue)[1] ELSE queue[1]>>
        /\ (call.name = "add_question_priority" /\ call.args[2] = "high" /\ NextCalled)
              => ret' = <<IF Overtaken(call.args[1]) THEN OfTarget(queue)[1]
                          ELSE call.args[1]>> ]_vars

\* a high-priority question is at the front and a queued question of the target
\* difficulty will overtake it
C4_Witness ==
    /\ call.name = "add_question_priority"
    /\ call.args[2] = "high"
    /\ Overtaken(call.args[1])

\* C5: on a non-empty queue, the question peek_next_question returns is the question an
\* immediately following get_next_question returns.
C5_PeekPreviewsNext ==
    [][ (NextCalled /\ queue # <<>>) => ret' = peek_next_question(queue) ]_vars

----------------------------------------------------------------------------
(* Properties of the index (specification TreeSpec) *)

QueryCalled == call.name = "get_questions_by_criteria"

\* what the index stores: every question list of the tree, in traversal order
Stored == get_all_questions(root)

Count(seq, x) == Cardinality({i \in 1..Len(seq) : seq[i] = x})

\* the same elements, each the same number of times
SameBag(a, b) ==
    /\ Len(a) = Len(b)
    /\ \A i \in 1..Len(a) : Count(a, a[i]) = Count(b, a[i])

\* the index of the first inserted question that shares the first n of
\* (subject, topic, difficulty) with the i-th
FirstLike(i, n) ==
    CHOOSE j \in 1..i :
        /\ inserted[j].subject = inserted[i].subject
        /\ n >= 2 => inserted[j].topic = inserted[i].topic
        /\ n >= 3 => inserted[j].difficulty = inserted[i].difficulty
        /\ \A k \in 1..(j - 1) :
              ~ /\ inserted[k].subject = inserted[i].subject
                /\ n >= 2 => inserted[k].topic = inserted[i].topic
                /\ n >= 3 => inserted[k].difficulty = inserted[i].difficulty

\* the i-th insertion comes before the j-th in node order: subjects, then topics, then
\* difficulties, each in order of first insertion, then the insertion order itself
NodeBefore(i, j) ==
    LET ri == <<FirstLike(i, 1), FirstLike(i, 2), FirstLike(i, 3), i>>
        rj == <<FirstLike(j, 1), FirstLike(j, 2), FirstLike(j, 3), j>>
    IN  \E k \in 1..4 : ri[k] < rj[k] /\ \A l \in 1..(k - 1) : ri[l] = rj[l]

\* the inserted questions in node order
InNodeOrder ==
    LET n == Len(inserted)
        p == CHOOSE f \in [1..n -> 1..n] :
                 \A i, j \in 1..n : i < j => NodeBefore(f[i], f[j])
    IN  [i \in 1..n |-> inserted[p[i]]]

NoFilters == call.args = << <<>>, <<>>, <<>>, <<>> >>

\* C7 as claimed: with no remove, the unfiltered query returns the inserted questions
\* in insertion order.
C7_Original == (QueryCalled /\ NoFilters /\ ~removed) => ret = inserted

\* C7 as amended: with no remove, the unfiltered query returns exactly the inserted
\* questions, each once per insertion, in node order: grouped by subject, then topic,
\* then difficulty, the groups in order of their first insertion and each difficulty
\* group in insertion order.
C7_QueryAllInNodeOrder ==
    (QueryCalled /\ NoFilters /\ ~removed) =>
        /\ SameBag(ret, inserted)
        /\ ret = InNodeOrder

\* an unfiltered query returned three inserted questions in another order than they
\* were inserted in
C7_Witness ==
    /\ QueryCalled /\ NoFilters /\ ~removed
    /\ Len(inserted) = 3
    /\ ret # inserted

InsertedSubjects == {inserted[i].subject : i \in 1..Len(inserted)}
TopicsOf(s) == {inserted[i].topic : i \in {j \in 1..Len(inserted) : inserted[j].subject = s}}

\* C8: with no remove, get_statistics returns, without raising, a report whose
\* total_questions is the number of add_question calls, whose subjects is the number of
\* distinct subjects, and whose per-subject entries give the topic and question counts.
C8_StatisticsReport ==
    (call.name = "get_statistics" /\ ~removed) =>
        /\ ret.raised = ""
        /\ ret.total_questions = Len(inserted)
        /\ ret.subjects = Cardinality(InsertedSubjects)
        /\ DOMAIN ret.subjects_detail = InsertedSubjects
        /\ \A s \in InsertedSubjects :
              /\ ret.subjects_detail[s].topics = Cardinality(TopicsOf(s))
              /\ ret.subjects_detail[s].total_questions =
                     Len(SelectSeq(inserted, LAMBDA q : q.subject = s))

SubjectOnly == call.args[2] = <<>> /\ call.args[3] = <<>> /\ call.args[4] = <<>>

\* C9 as claimed: query(subject=S) returns the empty list for every S never inserted
\* and otherwise exactly the stored questions whose subject is S.
C9_Original ==
    (QueryCalled /\ call.args[1] # <<>> /\ SubjectOnly) =>
        LET S == call.args[1][1]
        IN  /\ S \notin InsertedSubjects => ret = <<>>
            /\ ret = SelectSeq(Stored, LAMBDA q : q.subject = S)

\* C9 as amended: for every non-empty S, query(subject=S) returns the empty list when S
\* was never inserted and otherwise exactly the stored questions whose subject is S;
\* query(subject="") applies no subject filter and returns every stored question.
C9_QueryBySubject ==
    (QueryCalled /\ call.args[1] # <<>> /\ SubjectOnly) =>
        LET S == call.args[1][1]
        IN  IF S = "" THEN ret = Stored
            ELSE /\ S \notin InsertedSubjects => ret = <<>>
                 /\ ret = SelectSeq(Stored, LAMBDA q : q.subject = S)
                 /\ ~removed => SameBag(ret, SelectSeq(inserted, LAMBDA q : q.subject = S))

\* a query by subject returned two questions of different topics and left out a
\* question of another subject
C9_Witness ==
    /\ QueryCalled /\ SubjectOnly
    /\ call.args[1] = <<"Mathematics">>
    /\ Len(ret) = 2
    /\ ret[1].topic # ret[2].topic
    /\ Len(Stored) = 3

\* the question matches every filter of args that Given holds of
MatchesAll(q, args, Given(_)) ==
    /\ Given(args[1]) => q.subject = args[1][1]
    /\ Given(args[2]) => q.topic = args[2][1]
    /\ Given(args[3]) => q.difficulty = args[3][1]

IsGiven(opt) == opt # <<>>
IsGivenNonEmpty(opt) == opt # <<>> /\ opt[1] # ""

\* C10 as claimed: a query returns exactly the stored questions that match every given
\* filter.
C10_Original ==
    (QueryCalled /\ call.args[4] = <<>>) =>
        ret = SelectSeq(Stored, LAMBDA q : MatchesAll(q, call.args, IsGiven))

\* C10 as amended: a query returns exactly the stored questions that match every given
\* non-empty filter; a subject or topic filter "" is not applied.
C10_QueryByFilters ==
    (QueryCalled /\ call.args[4] = <<>>) =>
        /\ ret = SelectSeq(Stored, LAMBDA q : MatchesAll(q, call.args, IsGivenNonEmpty))
        /\ ~removed =>
              SameBag(ret, SelectSeq(inserted,
                               LAMBDA q : MatchesAll(q, call.args, IsGivenNonEmpty)))

\* a query by difficulty alone collected questions of two subjects and left out a
\* question of another difficulty
C10_Witness ==
    /\ QueryCalled
    /\ call.args = << <<>>, <<>>, <<"beginner">>, <<>> >>
    /\ Len(ret) = 2
    /\ ret[1].subject # ret[2].subject
    /\ Len(Stored) = 3

----------------------------------------------------------------------------
(* Properties of the end-to-end scenario (specification EndToEnd) *)

Loaded == stats.total_added > 0

\* the first and the third inserted question share a topic that the second lacks
TopicRevisited ==
    /\ inserted[1].topic = inserted[3].topic
    /\ inserted[1].topic # inserted[2].topic

\* C2 as claimed: with fewer than 3 recorded answers the three next() calls of the
\* end-to-end scenario return the questions in insertion order.
C2_Original ==
    (Len(drawn) = 3 /\ Len(performance_history) < 3) => drawn = inserted

\* C2 as amended: with fewer than 3 recorded answers next() never reorders, it returns
\* the front and leaves the rest in place; so the three next() calls of the end-to-end
\* scenario return the questions in the order query(subject) returned them, the node
\* order of the index, which is the insertion order unless the first and the third
\* question share a topic that the second lacks.
C2_NoReorderBelowThree ==
    [][ /\ (NextCalled /\ queue # <<>> /\ Len(performance_history) < 3) =>
              (ret' = <<queue[1]>> /\ queue' = Tail(queue))
        /\ (Loaded' /\ Len(performance_history') < 3) =>
              /\ drawn' \o queue' = InNodeOrder'
              /\ ~TopicRevisited' => drawn' \o queue' = inserted' ]_vars

\* after two recorded answers, three next() calls returned the three questions, the
\* first two of different topics, in the order they were inserted in
C2_Witness ==
    /\ Len(drawn) = 3
    /\ Len(performance_history) = 2
    /\ inserted[1].topic # inserted[2].topic
    /\ drawn = inserted

----------------------------------------------------------------------------
(* Properties of the reordering scenario (specification ReorderScenario) *)

LastThreeIncorrect ==
    /\ Len(performance_history) >= 3
    /\ \A i \in (Len(performance_history) - 2)..Len(performance_history) :
          performance_history[i] = 0

\* C6: with the queue [beginner, advanced, intermediate, beginner] in adaptive mode and
\* the last three answers incorrect, the optimizer recommends beginner and the first
\* next() returns the first beginner question and leaves the second beginner question
\* ahead of the advanced and the intermediate one.
C6_IncorrectAnswersPromoteBeginner ==
    (call.name = "get_next_question" /\ stats.total_served = 1 /\ LastThreeIncorrect) =>
        /\ TargetDifficulty = "beginner"
        /\ ret = <<b1>>
        /\ queue = <<b2, a1, i1>>

\* with a mean below 0.4 over the last three answers the first next() of the scenario
\* never leaves the second beginner question ahead of the advanced one
C6_LowPerformanceNeverPromotesBeginner ==
    (/\ call.name = "get_next_question"
     /\ stats.total_served = 1
     /\ Len(performance_history) >= 3
     /\ MeanOfLastThree < 400) =>
        /\ TargetDifficulty # "beginner"
        /\ queue # <<b2, a1, i1>>

----------------------------------------------------------------------------
(* Properties of remove_question (specification TreeSpec) *)

RemoveCalled == call'.name = "remove_question"

\* the stored questions whose id, as a string, is question_id
StoredWithId(question_id) == SelectSeq(Stored, LAMBDA q : IdStr(q.id) = question_id)
StoredWithoutId(question_id) == SelectSeq(Stored, LAMBDA q : IdStr(q.id) # question_id)

\* C11: remove_question(id) for an id stored exactly once returns True, decreases
\* total_questions by exactly 1, and leaves stored, and returned by the unfiltered query,
\* exactly the other questions in the order they had before.
C11_RemoveStoredOnce ==
    [][ (RemoveCalled /\ Len(StoredWithId(call'.args[1])) = 1) =>
            /\ ret' = TRUE
            /\ total_questions' = total_questions - 1
            /\ Stored' = StoredWithoutId(call'.args[1])
            /\ get_questions_by_criteria(root', <<>>, <<>>, <<>>, <<>>) =
                   StoredWithoutId(call'.args[1]) ]_vars

\* a question inserted once has been removed and two other questions are still stored
C11_Witness ==
    /\ call.name = "remove_question"
    /\ call.args[1] = IdStr(m1.id)
    /\ ret = TRUE
    /\ Count(inserted, m1) = 1
    /\ Len(inserted) = 3
    /\ Len(Stored) = 2

\* C12: remove_question(id) for an id stored nowhere returns False and leaves
\* total_questions and the whole tree, every node and every question list, unchanged.
C12_RemoveAbsent ==
    [][ (RemoveCalled /\ StoredWithId(call'.args[1]) = <<>>) =>
            /\ ret' = FALSE
            /\ total_questions' = total_questions
            /\ root' = root ]_vars

\* remove_question was called with an id that none of the two stored questions has
C12_Witness ==
    /\ call.name = "remove_question"
    /\ ret = FALSE
    /\ Len(Stored) = 2
    /\ StoredWithId(call.args[1]) = <<>>
    /\ total_questions = 2

----------------------------------------------------------------------------
(* The index queried with a limit: inserts, then queries whose limit ranges over
   None, 0 and the lengths around the result's *)

LimitSubjects == { <<>>, <<"Mathematics">> }
LimitTopics == { <<>>, <<"Algebra">> }
LimitDifficulties == { <<>>, <<"beginner">> }
Limits == { <<>>, <<0>>, <<1>>, <<2>>, <<3>>, <<4>> }

LimitNext ==
    \/ \E question \in TreePool :
          /\ Len(inserted) < MaxInserts
          /\ AddQuestion(question)
          /\ TreeOnly
    \/ \E subject \in LimitSubjects, topic \in LimitTopics,
          difficulty \in LimitDifficulties, limit \in Limits :
          GetQuestionsByCriteria(subject, topic, difficulty, limit) /\ TreeOnly

LimitSpec == TreeSpecInit /\ [][LimitNext]_vars

\* what the query just made returns when it is made without its limit
Unlimited == get_questions_by_criteria(root, call.args[1], call.args[2], call.args[3], <<>>)

Min(a, b) == IF a < b THEN a ELSE b

\* C13 as claimed: for every limit L >= 0 the query returns the first min(L, n) of the
\* n questions the same query returns without a limit.
C13_Original ==
    (QueryCalled /\ call.args[4] # <<>>) =>
        ret = SubSeq(Unlimited, 1, Min(call.args[4][1], Len(Unlimited)))

\* C13 as amended: for every limit L >= 1 the query returns the first min(L, n) of the
\* n questions the same query returns without a limit; limit 0 is not applied and the
\* query returns all n.
C13_LimitIsPrefix ==
    (QueryCalled /\ call.args[4] # <<>>) =>
        IF call.args[4][1] = 0 THEN ret = Unlimited
        ELSE ret = SubSeq(Unlimited, 1, Min(call.args[4][1], Len(Unlimited)))

\* a filtered query with limit 2 cut a result of three questions down to its first two
C13_Witness ==
    /\ QueryCalled
    /\ call.args[1] # <<>>
    /\ call.args[4] = <<2>>
    /\ Len(Unlimited) = 3
    /\ ret = <<Unlimited[1], Unlimited[2]>>
    /\ Unlimited[1] # Unlimited[3]

----------------------------------------------------------------------------
(* One DifficultyOptimizer under arbitrary get_optimal_next_difficulty calls *)

\* the number of cache entries the calls may create
MaxCache == 2

\* scores in thousandths, none ending in 5 (round2 is exact for them): the two ends,
\* the category thresholds 0.4, 0.6 and 0.8, the means of three answers, 0.95, and
\* 0.399, which rounds onto 0.4's key
OptimizerScores == {0, 333, 399, 400, 600, 667, 796, 800, 1000}
OptimizerHistories == { <<>>, <<1000, 1000, 0>>, <<0, 0, 1000>> }

GetOptimalNextDifficulty(current_difficulty, performance_score, history) ==
    /\ LET r == get_optimal_next_difficulty(transition_cache, current_difficulty,
                                            performance_score, history)
       IN  /\ ret' = r.difficulty
           /\ transition_cache' = r.cache
    /\ Called("get_optimal_next_difficulty",
              <<current_difficulty, performance_score, history>>)
    /\ UNCHANGED <<queue, adaptive_mode, answered_questions, performance_history, stats,
                   root, total_questions, inserted, removed, drawn, active_sessions, in_flight, held_status>>

OptimizerNext ==
    \E current_difficulty \in DifficultyLevel, performance_score \in OptimizerScores,
       history \in OptimizerHistories :
        /\ \/ cache_key(difficulty_map[current_difficulty], performance_score)
                  \in DOMAIN transition_cache
           \/ Cardinality(DOMAIN transition_cache) < MaxCache
        /\ GetOptimalNextDifficulty(current_difficulty, performance_score, history)

OptimizerSpec == TreeSpecInit /\ [][OptimizerNext]_vars

OptimalCalled == call'.name = "get_optimal_next_difficulty"

\* the cache key of the call made in the step
CalledKey == cache_key(difficulty_map[call'.args[1]], call'.args[2])

\* C14: a get_optimal_next_difficulty call whose key is not cached adds exactly that
\* entry, holding the level it returns, and changes no other entry; a call whose key is
\* cached returns the cached level and leaves the cache as it is; so a call that repeats
\* the previous call's (current_difficulty, performance_score) with no history returns
\* the same difficulty without the cache growing.
C14_Memoized ==
    [][ OptimalCalled =>
          /\ IF CalledKey \in DOMAIN transition_cache
             THEN /\ transition_cache' = transition_cache
                  /\ ret' = reverse_difficulty_map[transition_cache[CalledKey]]
             ELSE /\ DOMAIN transition_cache' = DOMAIN transition_cache \cup {CalledKey}
                  /\ \A k \in DOMAIN transition_cache :
                        transition_cache'[k] = transition_cache[k]
                  /\ ret' = reverse_difficulty_map[transition_cache'[CalledKey]]
          /\ (/\ call.name = "get_optimal_next_difficulty"
              /\ call.args = call'.args
              /\ call.args[3] = <<>>) =>
                 /\ ret' = ret
                 /\ Cardinality(DOMAIN transition_cache') =
                        Cardinality(DOMAIN transition_cache) ]_vars

\* a call without history has its recommendation in a cache of two entries
C14_Witness ==
    /\ call.name = "get_optimal_next_difficulty"
    /\ call.args[3] = <<>>
    /\ Cardinality(DOMAIN transition_cache) = 2
    /\ cache_key(difficulty_map[call.args[1]], call.args[2]) \in DOMAIN transition_cache
    /\ difficulty_map[ret] =
           transition_cache[cache_key(difficulty_map[call.args[1]], call.args[2])]

\* C15: get_optimal_next_difficulty returns one of the four difficulty levels, and
\* caches a level from 0 to 3, for every current difficulty, every score from 0.0 to 1.0
\* and every history, whether the level is computed or read from the cache.
C15_LevelInRange ==
    /\ \A k \in DOMAIN transition_cache : transition_cache[k] \in 0..3
    /\ call.name = "get_optimal_next_difficulty" =>
           ret \in {"beginner", "intermediate", "advanced", "expert"}

\* an expert answered with score 1.0 and a history got a recommendation
C15_Witness ==
    /\ call.name = "get_optimal_next_difficulty"
    /\ call.args[1] = "expert"
    /\ call.args[2] = 1000
    /\ call.args[3] # <<>>
    /\ ret = "beginner"

----------------------------------------------------------------------------
(* routers/quiz.py : quiz sessions, each a QuestionQueue of its own in active_sessions *)

\* a QuestionQueue whose optimizer arrives with an entry already in its cache
QuestionQueue_seeded(adaptive) ==
    [queue |-> <<>>, adaptive_mode |-> adaptive, answered_questions |-> <<>>,
     performance_history |-> <<>>, stats |-> reset_stats,
     transition_cache |-> [k \in {<<3, 0>>} |-> 2]]

\* QuestionQueue.__init__ as an object: every queue builds its own DifficultyOptimizer,
\* whose transition_cache starts empty
QuestionQueue(adaptive) ==
    [queue |-> <<>>, adaptive_mode |-> adaptive, answered_questions |-> <<>>,
     performance_history |-> <<>>, stats |-> reset_stats, transition_cache |-> <<>>]

\* add_questions on the queue object `self`, question_list being in its final order
queue_add_questions(self, question_list) ==
    LET r == add_loop(question_list, self.queue, self.stats)
    IN  [self EXCEPT !.queue = r.queue, !.stats = update_stats(r.stats, r.queue)]

\* get_next_question on the queue object `self`: [question, self afterwards]
queue_get_next_question(self) ==
    IF self.queue = <<>> THEN [question |-> <<>>, self |-> self]
    ELSE LET r == before_pop(self.queue, self.adaptive_mode, self.performance_history,
                             self.answered_questions, self.transition_cache)
         IN  [question |-> <<Head(r.queue)>>,
              self |-> [self EXCEPT
                           !.queue = Tail(r.queue),
                           !.stats = update_stats([@ EXCEPT !.total_served = @ + 1],
                                                  Tail(r.queue)),
                           !.transition_cache = r.cache]]

\* record_answer on the queue object `self`
queue_record_answer(self, question, is_correct, time_taken) ==
    LET h == Append(self.performance_history, IF is_correct THEN 1000 ELSE 0)
    IN  [self EXCEPT
            !.answered_questions = Append(@,
                [question |-> question, is_correct |-> is_correct,
                 time_taken |-> time_taken, difficulty |-> question.difficulty]),
            !.performance_history = trim_history(h)]

SessionIds == {"quiz1", "quiz2"}

\* active_sessions[session_id] = question_queue
StoreSession(session_id, question_queue) ==
    active_sessions' = [k \in DOMAIN active_sessions \cup {session_id} |->
                           IF k = session_id THEN question_queue ELSE active_sessions[k]]

SessionsOnly ==
    UNCHANGED <<queue, adaptive_mode, answered_questions, performance_history, stats,
                transition_cache, root, total_questions, inserted, removed, drawn,
                in_flight, held_status>>

\* generate_quiz: a new QuestionQueue for the session, loaded with the quiz's questions
GenerateQuiz(session_id, questions, adaptive_difficulty, randomize_questions) ==
    /\ \E question_list \in (IF randomize_questions THEN Shuffles(questions)
                                                    ELSE {questions}) :
          StoreSession(session_id,
              queue_add_questions(QuestionQueue(adaptive_difficulty), question_list))
    /\ Called("generate_quiz", <<session_id>>)
    /\ ret' = <<>>

\* the next-question endpoint: active_sessions.get(quiz_id).get_next_question()
SessionNextQuestion(quiz_id) ==
    /\ quiz_id \in DOMAIN active_sessions
    /\ LET r == queue_get_next_question(active_sessions[quiz_id])
       IN  /\ StoreSession(quiz_id, r.self)
           /\ ret' = r.question
    /\ Called("next_question", <<quiz_id>>)

\* the submit-answer endpoint: active_sessions.get(quiz_id).record_answer(...)
SessionSubmitAnswer(quiz_id, question, is_correct, time_taken) ==
    /\ quiz_id \in DOMAIN active_sessions
    /\ StoreSession(quiz_id, queue_record_answer(active_sessions[quiz_id], question,
                                                 is_correct, time_taken))
    /\ Called("submit_answer", <<quiz_id, question, is_correct>>)
    /\ ret' = <<>>

SessionsNext ==
    \/ \E session_id \in SessionIds :
          /\ session_id \notin DOMAIN active_sessions
          /\ GenerateQuiz(session_id, ScenarioQueue, TRUE, FALSE)
          /\ SessionsOnly
    \/ \E quiz_id \in SessionIds : SessionNextQuestion(quiz_id) /\ SessionsOnly
    \/ \E quiz_id \in SessionIds, question \in AnswerPool, is_correct \in BOOLEAN :
          /\ quiz_id \in DOMAIN active_sessions
          /\ Len(active_sessions[quiz_id].answered_questions) < MaxAnswers
          /\ SessionSubmitAnswer(quiz_id, question, is_correct, 5)
          /\ SessionsOnly

SessionsSpec == TreeSpecInit /\ [][SessionsNext]_vars

CacheOf(session_id) == active_sessions[session_id].transition_cache

----------------------------------------------------------------------------
(* The queue with clear_queue among its calls *)

\* clear_queue without the clear of performance_history
ClearQueue_keeps_history ==
    /\ queue' = <<>>
    /\ answered_questions' = <<>>
    /\ stats' = reset_stats
    /\ Called("clear_queue", <<>>)
    /\ ret' = <<>>
    /\ UNCHANGED <<adaptive_mode, performance_history, transition_cache>>

\* QuestionQueue.clear_queue: the optimizer and its cache stay
ClearQueue ==
    /\ queue' = <<>>
    /\ answered_questions' = <<>>
    /\ performance_history' = <<>>
    /\ stats' = reset_stats
    /\ Called("clear_queue", <<>>)
    /\ ret' = <<>>
    /\ UNCHANGED <<adaptive_mode, transition_cache>>

ClearNext ==
    \/ \E questions \in Batches, randomize \in BOOLEAN :
          /\ stats.total_added + Len(questions) <= MaxAdded
          /\ AddQuestions(questions, randomize)
          /\ QueueOnly
    \/ GetNextQuestion /\ QueueOnly
    \/ \E question \in AnswerPool, is_correct \in BOOLEAN :
          /\ Len(answered_questions) < MaxAnswers
          /\ RecordAnswer(question, is_correct, 5)
          /\ QueueOnly
    \/ ClearQueue /\ QueueOnly

ClearSpec == Init /\ [][ClearNext]_vars

\* C17: right after clear_queue the queue is empty, peek_next_question gives None and
\* peek_questions(n) is empty for every n, the answered log and the performance history
\* are empty, and total_added, total_served, current_size and the four per-difficulty
\* counts are 0.
C17_ClearResets ==
    call.name = "clear_queue" =>
        /\ queue = <<>>
        /\ peek_next_question(queue) = <<>>
        /\ \A n \in -1..4 : peek_questions(queue, n) = <<>>
        /\ answered_questions = <<>>
        /\ performance_history = <<>>
        /\ stats.total_added = 0
        /\ stats.total_served = 0
        /\ stats.current_size = 0
        /\ \A d \in DifficultyLevel : stats.difficulty_distribution[d] = 0

\* clear_queue was called on a queue that had reordered: its optimizer has cached a
\* recommendation
C17_Witness ==
    /\ call.name = "clear_queue"
    /\ DOMAIN transition_cache # {}
    /\ queue = <<>>

----------------------------------------------------------------------------
(* Long runs of record_answer *)

MaxRecorded == 11

HistoryPool == {b1, e1}

HistoryTimes == {5}

\* the beginner question is answered only among the first MaxAnswers records
HistoryNext ==
    \/ \E question \in HistoryPool, is_correct \in BOOLEAN, time_taken \in HistoryTimes :
          /\ Len(answered_questions) < MaxRecorded
          /\ question = e1 \/ Len(answered_questions) < MaxAnswers
          /\ RecordAnswer(question, is_correct, time_taken)
          /\ QueueOnly
    \/ ClearQueue /\ QueueOnly

HistorySpec == Init /\ [][HistoryNext]_vars

RecordCalled == call'.name = "record_answer"

Correctness(record) == IF record.is_correct THEN 1000 ELSE 0

\* the correctness values of the last Min(10, n) records of the log
LastTenCorrectness ==
    LET n == Len(answered_questions)
        m == Min(10, n)
    IN  [i \in 1..m |-> Correctness(answered_questions[n - m + i])]

\* C18: the performance history is the correctness values (1.0 or 0.0) of the last
\* min(10, n) records of the answered log, in order, so it never holds more than 10;
\* every record_answer call appends one record with question, is_correct, time_taken and
\* difficulty to the answered log, which keeps all of them.
C18_HistoryWindow ==
    /\ [](/\ performance_history = LastTenCorrectness
          /\ Len(performance_history) <= 10)
    /\ [][ RecordCalled =>
             answered_questions' = Append(answered_questions,
                 [question |-> call'.args[1], is_correct |-> call'.args[2],
                  time_taken |-> call'.args[3],
                  difficulty |-> call'.args[1].difficulty]) ]_vars

\* eleven answers recorded: the first one, correct, has left the history, whose oldest
\* value is the second one's, incorrect
C18_Witness ==
    /\ Len(answered_questions) = 11
    /\ Len(performance_history) = 10
    /\ answered_questions[1].is_correct
    /\ ~answered_questions[2].is_correct
    /\ performance_history[1] = 0
    /\ answered_questions[1].difficulty = "beginner"

----------------------------------------------------------------------------
(* get_next_question without reordering (specification ClearSpec) *)

\* C19: with adaptive_mode off, get_next_question on a non-empty queue returns the front
\* question and leaves the rest in order, and record_answer leaves the queue as it is,
\* whatever was answered.
C19_NonAdaptiveServesFront ==
    [][ ~adaptive_mode =>
          /\ (NextCalled /\ queue # <<>>) =>
                (ret' = <<queue[1]>> /\ queue' = Tail(queue))
          /\ RecordCalled => queue' = queue ]_vars

\* with adaptive_mode off and at least 3 answers, get_next_question has served a
\* question that is not of the difficulty the optimizer recommends while one of that
\* difficulty is queued
C19_Witness ==
    /\ ~adaptive_mode
    /\ call.name = "get_next_question"
    /\ Len(performance_history) >= 3
    /\ ret # <<>>
    /\ ret[1].difficulty # TargetDifficulty
    /\ OfTarget(queue) # <<>>

\* C20: get_next_question on the empty queue returns None and leaves the queue, the
\* stats (total_served, total_added, current_size, difficulty_distribution), the
\* performance history, the answered log and the optimizer's cache unchanged.
C20_NextOnEmpty ==
    [][ (NextCalled /\ queue = <<>>) =>
          /\ ret' = <<>>
          /\ UNCHANGED <<queue, stats, performance_history, answered_questions,
                         transition_cache, adaptive_mode>> ]_vars

\* get_next_question found the queue empty after questions were served, answers
\* recorded and a recommendation cached
C20_Witness ==
    /\ call.name = "get_next_question"
    /\ ret = <<>>
    /\ queue = <<>>
    /\ stats.total_served >= 1
    /\ performance_history # <<>>
    /\ answered_questions # <<>>
    /\ DOMAIN transition_cache # {}

----------------------------------------------------------------------------
(* The queue with the previews and insert_at_position among its calls *)

PeekCounts == {0, 1, 2, 5}

PeekNext ==
    \/ \E questions \in Batches :
          /\ stats.total_added + Len(questions) <= MaxAdded
          /\ AddQuestions(questions, FALSE)
          /\ QueueOnly
    \/ \E question \in QueuePool, position \in -1..(Len(queue) + 1) :
          /\ stats.total_added < MaxAdded
          /\ InsertAtPosition(question, position)
          /\ QueueOnly
    \/ GetNextQuestion /\ QueueOnly
    \/ \E question \in AnswerPool, is_correct \in BOOLEAN :
          /\ Len(answered_questions) < MaxAnswers
          /\ RecordAnswer(question, is_correct, 5)
          /\ QueueOnly
    \/ PeekNextQuestion /\ QueueOnly
    \/ \E count \in PeekCounts : PeekQuestions(count) /\ QueueOnly

PeekSpec == Init /\ [][PeekNext]_vars

QueueStateUnchanged ==
    UNCHANGED <<queue, stats, performance_history, answered_questions, transition_cache,
                adaptive_mode>>

\* C21: peek_next_question returns the front question (None on the empty queue) and
\* peek_questions(n), n >= 0, the first min(n, size) questions in queue order; neither
\* changes the queue, the stats, the performance history, the answered log or the
\* optimizer's cache.
C21_PeeksAreViews ==
    [][ /\ call'.name = "peek_next_question" =>
              /\ ret' = IF queue = <<>> THEN <<>> ELSE <<queue[1]>>
              /\ QueueStateUnchanged
        /\ (call'.name = "peek_questions" /\ call'.args[1] >= 0) =>
              /\ ret' = SubSeq(queue, 1, Min(call'.args[1], Len(queue)))
              /\ QueueStateUnchanged ]_vars

\* peek_questions(2) on a queue of three with answers recorded and questions served
C21_Witness ==
    /\ call.name = "peek_questions"
    /\ call.args[1] = 2
    /\ Len(queue) = 3
    /\ ret = <<queue[1], queue[2]>>
    /\ ret[1] # ret[2]
    /\ performance_history # <<>>

\* C22: insert_at_position(q, p) with 0 <= p <= size puts q at index p and keeps the
\* other questions in their order; with p < 0 or p > size it appends q at the end; in
\* both cases the queue grows by exactly one.
C22_InsertAtPosition ==
    [][ call'.name = "insert_at_position" =>
          LET q == call'.args[1]
              p == call'.args[2]
          IN  /\ Len(queue') = Len(queue) + 1
              /\ IF 0 <= p /\ p <= Len(queue)
                 THEN /\ queue'[p + 1] = q
                      /\ \A i \in 1..Len(queue) :
                            queue[i] = queue'[IF i <= p THEN i ELSE i + 1]
                 ELSE queue' = Append(queue, q) ]_vars

\* a question was inserted with a position beyond the end of a queue of two and is
\* now its last element
C22_Witness ==
    /\ call.name = "insert_at_position"
    /\ call.args[2] > Len(queue) - 1
    /\ Len(queue) = 3
    /\ queue[3] = call.args[1]
    /\ queue[1] # queue[3]

----------------------------------------------------------------------------
(* The direction of the recommendation (specification OptimizerSpec) *)

OptimalReturned == call.name = "get_optimal_next_difficulty"

\* C23: with a score of at least 0.8, get_optimal_next_difficulty returns intermediate
\* or advanced from current difficulty beginner, and advanced or expert from current
\* difficulty expert.
C23_HighPerformanceMovesUp ==
    (OptimalReturned /\ call.args[2] >= 800) =>
        /\ call.args[1] = "beginner" => ret \in {"intermediate", "advanced"}
        /\ call.args[1] = "expert" => ret \in {"advanced", "expert"}

\* C24: with a score below 0.4, get_optimal_next_difficulty returns, for every current
\* difficulty, a level that is not above the current level.
C24_LowPerformanceNeverMovesUp ==
    (OptimalReturned /\ call.args[2] < 400) =>
        difficulty_map[ret] <= difficulty_map[call.args[1]]

----------------------------------------------------------------------------
(* DifficultyOptimizer.optimize_quiz_difficulty_sequence *)

MaxCount == 3

\* max(0.0, min(1.0, x)), thousandths
clamp_unit(x) == IF x < 0 THEN 0 ELSE IF x > 1000 THEN 1000 ELSE x

\* the loop "for i in range(1, questions_count)" from i on; draws[i] is the value
\* np.random.normal(0, 0.1) gives in iteration i
RECURSIVE sequence_loop(_, _, _, _, _, _, _)
sequence_loop(i, questions_count, sequence, current_difficulty, simulated_performance, cache, draws) ==
    IF i >= questions_count THEN [sequence |-> sequence, cache |-> cache]
    ELSE LET performance == clamp_unit(simulated_performance + draws[i])
             next == get_optimal_next_difficulty(cache, current_difficulty,
                                                 performance, <<>>)
         IN  sequence_loop(i + 1, questions_count, Append(sequence, next.difficulty),
                           next.difficulty, performance, next.cache, draws)

optimize_quiz_difficulty_sequence(cache, questions_count, starting_difficulty, target_performance, draws) ==
    sequence_loop(1, questions_count, <<starting_difficulty>>, starting_difficulty,
                  target_performance, cache, draws)

\* values of the random draw, thousandths
Variations == {-120, 120}

SequenceTargets == {700, 1000}

OptimizeQuizDifficultySequence(questions_count, starting_difficulty, target_performance) ==
    /\ \E draws \in [1..(questions_count - 1) -> Variations] :
          \E r \in {optimize_quiz_difficulty_sequence(transition_cache, questions_count,
                        starting_difficulty, target_performance, draws)} :
              /\ Cardinality(DOMAIN r.cache) <= MaxCache
              /\ ret' = r.sequence
              /\ transition_cache' = r.cache
    /\ Called("optimize_quiz_difficulty_sequence",
              <<questions_count, starting_difficulty, target_performance>>)
    /\ UNCHANGED <<queue, adaptive_mode, answered_questions, performance_history, stats,
                   root, total_questions, inserted, removed, drawn, active_sessions, in_flight, held_status>>

SequenceNext ==
    \E questions_count \in 0..MaxCount, starting_difficulty \in DifficultyLevel,
       target_performance \in SequenceTargets :
        OptimizeQuizDifficultySequence(questions_count, starting_difficulty,
                                       target_performance)

SequenceSpec == TreeSpecInit /\ [][SequenceNext]_vars

SequenceReturned == call.name = "optimize_quiz_difficulty_sequence"

\* C25: optimize_quiz_difficulty_sequence returns exactly questions_count difficulties
\* for every questions_count >= 0 and every outcome of the random draws; for
\* questions_count >= 1 the first is starting_difficulty; every element is one of the
\* four levels.
C25_SequenceLength ==
    SequenceReturned =>
        /\ Len(ret) = call.args[1]
        /\ call.args[1] >= 1 => ret[1] = call.args[2]
        /\ \A i \in 1..Len(ret) : ret[i] \in DifficultyLevel

\* for questions_count >= 1 the sequence has questions_count elements, starts with
\* starting_difficulty and holds levels only; for questions_count = 0 it is
\* [starting_difficulty]
C25_SequenceLengthFromOne ==
    SequenceReturned =>
        /\ Len(ret) = IF call.args[1] >= 1 THEN call.args[1] ELSE 1
        /\ ret[1] = call.args[2]
        /\ \A i \in 1..Len(ret) : ret[i] \in DifficultyLevel

----------------------------------------------------------------------------
(* DifficultyOptimizer.analyze_difficulty_progression *)

MaxLen == 2

\* a quotient num / den kept exact; den = 0 stands for numpy's nan (mean of nothing)
Fraction(num, den) == [num |-> num, den |-> den]

AbsDiff(a, b) == IF a < b THEN b - a ELSE a - b

\* np.mean over thousandths
np_mean(scores) == Fraction(SumSeq(scores), Len(scores))

\* np.var: mean of the squared deviations = (n * sum x^2 - (sum x)^2) / n^2
np_var(scores) ==
    LET n == Len(scores)
        squares == [i \in 1..n |-> scores[i] * scores[i]]
    IN  Fraction(n * SumSeq(squares) - SumSeq(scores) * SumSeq(scores), n * n)

\* the number of i in 1..len-1 with actual_sequence[i] != actual_sequence[i-1]
difficulty_changes(actual_sequence) ==
    Cardinality({i \in 2..Len(actual_sequence) :
                    actual_sequence[i] # actual_sequence[i - 1]})

\* the sum of the efficiencies of the pairs of zip(actual_sequence, performance_scores)
total_efficiency(actual_sequence, performance_scores) ==
    SumSeq([i \in 1..Len(actual_sequence) |->
              efficiency_matrix[get_performance_category(performance_scores[i]) + 1]
                               [difficulty_map[actual_sequence[i]] + 1]])

\* 1.0 - sum(changes) / (len(changes) * 3) for more than one element, else the 0.0 set
\* at the start
progression_smoothness(actual_sequence) ==
    IF Len(actual_sequence) > 1
    THEN LET changes == [i \in 1..(Len(actual_sequence) - 1) |->
                            AbsDiff(difficulty_map[actual_sequence[i + 1]],
                                    difficulty_map[actual_sequence[i]])]
         IN  Fraction(Len(changes) * 3 - SumSeq(changes), Len(changes) * 3)
    ELSE Fraction(0, 1)

AnalysisKeys ==
    {"average_performance", "performance_variance", "difficulty_changes",
     "optimal_efficiency", "progression_smoothness"}

NoAnalysis ==
    [average_performance |-> Fraction(0, 1), performance_variance |-> Fraction(0, 1),
     difficulty_changes |-> 0, optimal_efficiency |-> Fraction(0, 1),
     progression_smoothness |-> Fraction(0, 1)]

\* the outcome of the call: raised names the exception that left it ("" for none), keys
\* the keys of the dict returned
analyze_difficulty_progression(actual_sequence, performance_scores) ==
    IF Len(actual_sequence) # Len(performance_scores)
    THEN [raised |-> "", keys |-> {"error"}, analysis |-> NoAnalysis]
    ELSE IF Len(actual_sequence) = 0
    THEN \* line 207: the int 0 divided by len([]) = 0
         [raised |-> "ZeroDivisionError", keys |-> {}, analysis |-> NoAnalysis]
    ELSE [raised |-> "", keys |-> AnalysisKeys,
          analysis |->
              [average_performance |-> np_mean(performance_scores),
               performance_variance |-> np_var(performance_scores),
               difficulty_changes |-> difficulty_changes(actual_sequence),
               optimal_efficiency |->
                   Fraction(total_efficiency(actual_sequence, performance_scores),
                            Len(actual_sequence)),
               progression_smoothness |-> progression_smoothness(actual_sequence)]]

SeqsUpTo(S, n) == UNION { [1..k -> S] : k \in 0..n }

AnalysisScores == {300, 900}

AnalyzeDifficultyProgression(actual_sequence, performance_scores) ==
    /\ ret' = analyze_difficulty_progression(actual_sequence, performance_scores)
    /\ Called("analyze_difficulty_progression", <<actual_sequence, performance_scores>>)
    /\ UNCHANGED <<queue, adaptive_mode, answered_questions, performance_history, stats,
                   transition_cache, root, total_questions, inserted, removed, drawn,
                   active_sessions, in_flight, held_status>>

AnalysisNext ==
    \E actual_sequence \in SeqsUpTo(DifficultyLevel, MaxLen),
       performance_scores \in SeqsUpTo(AnalysisScores, MaxLen) :
        AnalyzeDifficultyProgression(actual_sequence, performance_scores)

AnalysisSpec == TreeSpecInit /\ [][AnalysisNext]_vars

AnalysisReturned == call.name = "analyze_difficulty_progression"

\* C26: analyze_difficulty_progression never raises; for inputs of different lengths
\* the result carries an error field, and for inputs of equal length, two empty lists
\* and single-element lists included, it is a report with average_performance,
\* performance_variance, difficulty_changes, optimal_efficiency and
\* progression_smoothness.
C26_AnalysisNeverRaises ==
    AnalysisReturned =>
        /\ ret.raised = ""
        /\ IF Len(call.args[1]) # Len(call.args[2])
           THEN "error" \in ret.keys
           ELSE AnalysisKeys \subseteq ret.keys

\* for non-empty inputs of equal length the report is returned, and for inputs of
\* different lengths the error result
C26_AnalysisOfNonEmpty ==
    (AnalysisReturned /\ (call.args[1] # <<>> \/ call.args[2] # <<>>)) =>
        /\ ret.raised = ""
        /\ IF Len(call.args[1]) # Len(call.args[2])
           THEN ret.keys = {"error"}
           ELSE ret.keys = AnalysisKeys

----------------------------------------------------------------------------
(* DifficultyOptimizer.get_difficulty_recommendations *)

\* user_performance_history[-10:] taken over the whole history
recent_entries_all(history) == history

\* user_performance_history[-10:]
recent_entries(history) == LastN(history, 10)

\* the keys of difficulty_performance in insertion order: the difficulties of the
\* entries in order of first appearance
RECURSIVE performance_keys(_)
performance_keys(entries) ==
    IF entries = <<>> THEN <<>>
    ELSE LET before == performance_keys(SubSeq(entries, 1, Len(entries) - 1))
             difficulty == entries[Len(entries)][1]
         IN  IF \E i \in 1..Len(before) : before[i] = difficulty
             THEN before
             ELSE Append(before, difficulty)

\* difficulty_performance[difficulty]: the scores of the entries of that difficulty
scores_of(entries, difficulty) ==
    LET of == SelectSeq(entries, LAMBDA e : e[1] = difficulty)
    IN  [i \in 1..Len(of) |-> of[i][2]]

\* avg_performance[difficulty], exact
avg_performance(entries, difficulty) == np_mean(scores_of(entries, difficulty))

\* a < b for quotients with positive denominators
FractionLess(a, b) == a.num * b.den < b.num * a.den

\* max(keys, key = avg): the first key, in insertion order, that no key exceeds
best_difficulty(entries) ==
    LET keys == performance_keys(entries)
        i == CHOOSE i \in 1..Len(keys) :
                /\ \A j \in 1..Len(keys) :
                      ~FractionLess(avg_performance(entries, keys[i]),
                                    avg_performance(entries, keys[j]))
                /\ \A j \in 1..(i - 1) :
                      FractionLess(avg_performance(entries, keys[j]),
                                   avg_performance(entries, keys[i]))
    IN  keys[i]

\* a quotient as a score in thousandths, cut after the third decimal: the category
\* and, for the histories used here, the rounded cache key are those of the float
Thousandths(f) == f.num \div f.den

\* the dict returned and the optimizer's cache afterwards; confidence in thousandths
get_difficulty_recommendations(cache, history) ==
    IF history = <<>>
    THEN [recommended_difficulty |-> "intermediate", confidence |-> 500,
          reasoning |-> <<"No performance history available">>, cache |-> cache]
    ELSE LET entries == recent_entries(history)
             best == best_difficulty(entries)
             best_score == Thousandths(avg_performance(entries, best))
             recommended == get_optimal_next_difficulty(cache, best, best_score, <<>>)
         IN  [recommended_difficulty |-> recommended.difficulty,
              confidence |-> Min(950, best_score + 200),
              reasoning |-> <<"Based on", best_score, best>>,
              cache |-> recommended.cache]

low == <<"beginner", 0>>
high == <<"beginner", 1000>>
mid == <<"intermediate", 500>>

RecommendEntries == {low, high, mid}

\* nine expert answers, all wrong
Padding == [i \in 1..9 |-> <<"expert", 0>>]

\* short histories, and histories with the nine expert answers in the middle
RecommendHistories ==
    { head \o pad \o tail : head \in SeqsUpTo(RecommendEntries, 1),
                            pad \in {<<>>, Padding},
                            tail \in SeqsUpTo(RecommendEntries, 2) }

GetDifficultyRecommendations(user_performance_history) ==
    /\ \E r \in {get_difficulty_recommendations(transition_cache,
                                                user_performance_history)} :
          /\ Cardinality(DOMAIN r.cache) <= MaxCache
          /\ ret' = [recommended_difficulty |-> r.recommended_difficulty,
                     confidence |-> r.confidence, reasoning |-> r.reasoning]
          /\ transition_cache' = r.cache
    /\ Called("get_difficulty_recommendations", <<user_performance_history>>)
    /\ UNCHANGED <<queue, adaptive_mode, answered_questions, performance_history, stats,
                   root, total_questions, inserted, removed, drawn, active_sessions, in_flight, held_status>>

RecommendNext ==
    \E user_performance_history \in RecommendHistories :
        GetDifficultyRecommendations(user_performance_history)

RecommendSpec == TreeSpecInit /\ [][RecommendNext]_vars

RecommendCalled == call'.name = "get_difficulty_recommendations"

\* the last Min(10, n) entries of a history
LastTen(h) == [i \in 1..Min(10, Len(h)) |-> h[Len(h) - Min(10, Len(h)) + i]]

\* the sum and the number of the scores of difficulty d among the entries
ScoreSum(entries, d) ==
    SumSeq([i \in 1..Len(entries) |-> IF entries[i][1] = d THEN entries[i][2] ELSE 0])
ScoreCount(entries, d) == Cardinality({i \in 1..Len(entries) : entries[i][1] = d})

\* d has the highest average score among the entries
HighestAverage(entries, d) ==
    /\ ScoreCount(entries, d) > 0
    /\ \A o \in DifficultyLevel :
          ScoreCount(entries, o) > 0 =>
              ScoreSum(entries, o) * ScoreCount(entries, d)
                  <= ScoreSum(entries, d) * ScoreCount(entries, o)

\* C27: get_difficulty_recommendations([]) returns intermediate with confidence 0.5;
\* for a non-empty history only the last 10 entries count: a difficulty with the
\* highest average score among them is passed with that average to
\* get_optimal_next_difficulty, whose result is the recommendation, and the confidence
\* is min(0.95, best average + 0.2), which lies in [0, 1].
C27_Recommendation ==
    [][ RecommendCalled =>
          LET h == call'.args[1]
          IN  IF h = <<>>
              THEN /\ ret'.recommended_difficulty = "intermediate"
                   /\ ret'.confidence = 500
                   /\ transition_cache' = transition_cache
              ELSE \E d \in DifficultyLevel :
                      LET average == ScoreSum(LastTen(h), d) \div ScoreCount(LastTen(h), d)
                          optimal == get_optimal_next_difficulty(
                                         transition_cache, d, average, <<>>)
                      IN  /\ HighestAverage(LastTen(h), d)
                          /\ ret'.recommended_difficulty = optimal.difficulty
                          /\ transition_cache' = optimal.cache
                          /\ ret'.confidence = Min(950, average + 200)
                          /\ ret'.confidence >= 0
                          /\ ret'.confidence <= 1000 ]_vars

\* a history of eleven entries whose first, the only one with score 1.0, is not among
\* the last 10: the recommendation follows the best of the last 10, intermediate 0.5
C27_Witness ==
    /\ call.name = "get_difficulty_recommendations"
    /\ Len(call.args[1]) = 11
    /\ call.args[1][1] = high
    /\ call.args[1][11] = mid
    /\ ret.confidence = 700
    /\ <<1, 50>> \in DOMAIN transition_cache

----------------------------------------------------------------------------
(* The level chosen on an empty cache (specification OptimizerSpec) *)

\* cat(s): 0 from 0.8, 1 from 0.6, 2 from 0.4, else 3
Cat(s) == CASE s >= 800 -> 0 [] s >= 600 /\ s < 800 -> 1 [] s >= 400 /\ s < 600 -> 2
            [] OTHER -> 3

\* efficiency[cat][t] - transition_cost(t - c), hundredths
Value(cat, t, c) == efficiency_matrix[cat + 1][t + 1] - transition_costs(t - c)

\* the lowest-numbered level among those of greatest value
BestLevel(cat, c) ==
    CHOOSE t \in 0..3 :
        /\ \A u \in 0..3 : Value(cat, u, c) <= Value(cat, t, c)
        /\ \A u \in 0..(t - 1) : Value(cat, u, c) < Value(cat, t, c)

\* C28: on an empty cache, for every current level c and score s,
\* get_optimal_next_difficulty returns the lowest-numbered level t of 0..3 that
\* maximises efficiency[cat(s)][t] - transition_cost(t - c), the boundary scores 0.8,
\* 0.6 and 0.4 falling in the higher-performance category.
C28_ArgmaxFirstWins ==
    [][ (OptimalCalled /\ transition_cache = <<>>) =>
          ret' = reverse_difficulty_map[
                     BestLevel(Cat(call'.args[2]), difficulty_map[call'.args[1]])] ]_vars

\* the boundary score 0.8 from expert on an empty cache: beginner and intermediate
\* both have the greatest value, and beginner, evaluated first, is returned
C28_Witness ==
    /\ call.name = "get_optimal_next_difficulty"
    /\ call.args[1] = "expert"
    /\ call.args[2] = 800
    /\ DOMAIN transition_cache = {<<3, 80>>}
    /\ Value(0, 0, 3) = Value(0, 1, 3)
    /\ ret = "beginner"

----------------------------------------------------------------------------
(* The cache key and the history (specification OptimizerSpec) *)

\* the key (level, round(score, 2)) of a call with arguments args
KeyOf(args) == <<difficulty_map[args[1]], round2(args[2])>>

\* C29: the cache key ignores the history: once a call has cached (d, round(s, 2)),
\* the entry stays as it is, and every later call with difficulty d, a score that
\* rounds to the same hundredth and any history returns the cached value and adds no
\* entry; in particular a call directly after one with the same d and rounded score
\* returns the same difficulty.
C29_KeyIgnoresHistory ==
    [][ OptimalCalled =>
          /\ \A k \in DOMAIN transition_cache :
                k \in DOMAIN transition_cache' /\ transition_cache'[k] = transition_cache[k]
          /\ KeyOf(call'.args) \in DOMAIN transition_cache =>
                /\ ret' = reverse_difficulty_map[transition_cache[KeyOf(call'.args)]]
                /\ DOMAIN transition_cache' = DOMAIN transition_cache
          /\ (call.name = "get_optimal_next_difficulty" /\ KeyOf(call'.args) = KeyOf(call.args))
                => (ret' = ret /\ transition_cache' = transition_cache) ]_vars

\* (intermediate, 0.8) with a history was answered from the entry that
\* (intermediate, 0.796) had cached: intermediate, where a computation for 0.8 gives
\* beginner
C29_Witness ==
    /\ call.name = "get_optimal_next_difficulty"
    /\ call.args[1] = "intermediate"
    /\ call.args[2] = 800
    /\ call.args[3] # <<>>
    /\ DOMAIN transition_cache = {<<1, 80>>}
    /\ ret = "intermediate"
    /\ calculate_optimal_transition(1, 800, call.args[3]) = 0

----------------------------------------------------------------------------
(* DifficultyOptimizer._calculate_trend_factor on its own *)

MaxHistory == 4

\* scores in thousandths; 2500 is outside [0, 1] and makes the clamp act
TrendScores == {0, 400, 1000, 2500}

CalculateTrendFactor(history) ==
    /\ ret' = calculate_trend_factor(history)
    /\ Called("calculate_trend_factor", <<history>>)
    /\ UNCHANGED <<queue, adaptive_mode, answered_questions, performance_history, stats,
                   transition_cache, root, total_questions, inserted, removed, drawn,
                   active_sessions, in_flight, held_status>>

TrendNext ==
    \E history \in SeqsUpTo(TrendScores, MaxHistory) : CalculateTrendFactor(history)

TrendSpec == TreeSpecInit /\ [][TrendNext]_vars

\* C30: the trend factor (in units of 1/2000) is exactly 1.0 for fewer than 3 entries;
\* otherwise it is 1.0 + (last - first) / 2 over the last 3 entries clamped to
\* [0.5, 1.5]: above 1 when the last of the three exceeds the first, below 1 when it is
\* lower, and always within [0.5, 1.5].
C30_TrendFactor ==
    call.name = "calculate_trend_factor" =>
        LET h == call.args[1]
            n == Len(h)
        IN  /\ ret >= 1000 /\ ret <= 3000
            /\ n < 3 => ret = 2000
            /\ n >= 3 =>
                  LET first == h[n - 2]
                      last == h[n]
                      unclamped == 2000 + (last - first)
                  IN  /\ ret = IF unclamped < 1000 THEN 1000
                               ELSE IF unclamped > 3000 THEN 3000 ELSE unclamped
                      /\ last > first => ret > 2000
                      /\ last < first => ret < 2000

\* four entries, rising over the last three although the first entry is the highest
C30_Witness ==
    /\ call.name = "calculate_trend_factor"
    /\ call.args[1] = <<1000, 0, 1000, 400>>
    /\ ret = 2400

----------------------------------------------------------------------------
(* record_answer and get_next_question on one queue from two threads, a statement at
   a time.  in_flight holds each thread's position (the source line it is about to
   execute) and locals, and, as history, the queue's fields when the calls began. *)

\* the statements of record_answer with the two appends exchanged
record_order_history_first == <<"l113", "l112", "l116">>

\* the statements of record_answer in the order it executes them
record_order == <<"l112", "l113", "l116">>

RaceQueue == <<b1, i1, a1>>
RaceAnswered == {b1, a1}

Snapshot ==
    [queue |-> queue, performance_history |-> performance_history,
     answered_questions |-> answered_questions, transition_cache |-> transition_cache]

\* both calls are made; neither has executed a statement
StartCalls(question, is_correct, time_taken) ==
    /\ in_flight = <<>>
    /\ in_flight' =
          [start |-> Snapshot,
           record |-> [pc |-> 1, question |-> question, is_correct |-> is_correct,
                       time_taken |-> time_taken],
           next |-> [pc |-> "l74", recent_performance |-> 0,
                     current_difficulty |-> "", question |-> <<>>]]
    /\ Called("record_answer || get_next_question", <<question, is_correct, time_taken>>)
    /\ ret' = <<>>
    /\ UNCHANGED <<queue, adaptive_mode, answered_questions, performance_history, stats,
                   transition_cache, root, total_questions, inserted, removed, drawn,
                   active_sessions, held_status>>

\* one statement of record_answer
RecordStep ==
    /\ in_flight # <<>>
    /\ in_flight.record.pc <= Len(record_order)
    /\ LET r == in_flight.record
           statement == record_order[r.pc]
       IN  /\ answered_questions' =
                 IF statement = "l112"
                 THEN Append(answered_questions,
                             [question |-> r.question, is_correct |-> r.is_correct,
                              time_taken |-> r.time_taken,
                              difficulty |-> r.question.difficulty])
                 ELSE answered_questions
           /\ performance_history' =
                 CASE statement = "l113" ->
                          Append(performance_history, IF r.is_correct THEN 1000 ELSE 0)
                   [] statement = "l116" -> trim_history(performance_history)
                   [] OTHER -> performance_history
    /\ in_flight' = [in_flight EXCEPT !.record.pc = @ + 1]
    /\ UNCHANGED <<queue, adaptive_mode, stats, transition_cache, root, total_questions,
                   inserted, removed, drawn, active_sessions, held_status, call, ret>>

\* one statement of get_next_question and of the _apply_adaptive_ordering it calls
NextStep ==
    /\ in_flight # <<>>
    /\ in_flight.next.pc # "done"
    /\ LET n == in_flight.next
           pc == n.pc
           optimal == get_optimal_next_difficulty(transition_cache, n.current_difficulty,
                                                  n.recent_performance, <<>>)
       IN  /\ in_flight' = [in_flight EXCEPT !.next =
                 CASE pc = "l74" -> [n EXCEPT !.pc = IF queue = <<>> THEN "done" ELSE "l78"]
                   [] pc = "l78" ->
                        [n EXCEPT !.pc = IF adaptive_mode /\ performance_history # <<>>
                                         THEN "l123" ELSE "l81"]
                   [] pc = "l123" ->
                        [n EXCEPT !.pc = IF Len(performance_history) < 3
                                         THEN "l81" ELSE "l127"]
                   [] pc = "l127" ->
                        [n EXCEPT !.pc = "l130",
                                  !.recent_performance =
                                      recent_performance(performance_history)]
                   [] pc = "l130" ->
                        [n EXCEPT !.pc = "l131",
                                  !.current_difficulty =
                                      get_current_difficulty_level(answered_questions)]
                   [] pc = "l131" -> [n EXCEPT !.pc = "l81"]
                   [] pc = "l81" -> [n EXCEPT !.pc = "l82", !.question = <<Head(queue)>>]
                   [] pc = "l82" -> [n EXCEPT !.pc = "l83"]
                   [] pc = "l83" -> [n EXCEPT !.pc = "done"]]
           /\ queue' = CASE pc = "l131" -> reorder_by_difficulty(queue, optimal.difficulty)
                         [] pc = "l81" -> Tail(queue)
                         [] OTHER -> queue
           /\ transition_cache' = IF pc = "l131" THEN optimal.cache ELSE transition_cache
           /\ stats' = CASE pc = "l82" -> [stats EXCEPT !.total_served = @ + 1]
                         [] pc = "l83" -> update_stats(stats, queue)
                         [] OTHER -> stats
           /\ ret' = IF pc = "l83" THEN n.question ELSE ret
    /\ UNCHANGED <<adaptive_mode, answered_questions, performance_history, root,
                   total_questions, inserted, removed, drawn, active_sessions,
                   held_status, call>>

RaceNext ==
    \/ /\ in_flight = <<>>
       /\ stats.total_added = 0
       /\ AddQuestions(RaceQueue, FALSE)
       /\ QueueOnly
    \/ \E question \in RaceAnswered, is_correct \in BOOLEAN :
          /\ in_flight = <<>>
          /\ Len(answered_questions) < MaxAnswers
          /\ RecordAnswer(question, is_correct, 5)
          /\ QueueOnly
    \/ \E question \in RaceAnswered, is_correct \in BOOLEAN :
          StartCalls(question, is_correct, 5)
    \/ RecordStep
    \/ NextStep

RaceSpec == Init /\ [][RaceNext]_vars

BothReturned ==
    /\ in_flight # <<>>
    /\ in_flight.record.pc > Len(record_order)
    /\ in_flight.next.pc = "done"

\* what get_next_question returns and leaves queued when it pops after a reorder that
\* used the history h and the answered log a, from the queue and cache the calls began with
Outcome(h, a) ==
    LET s == in_flight.start
    IN  IF s.queue = <<>> THEN [question |-> <<>>, queue |-> <<>>]
        ELSE LET r == before_pop(s.queue, adaptive_mode, h, a, s.transition_cache)
             IN  [question |-> <<Head(r.queue)>>, queue |-> Tail(r.queue)]

RecordOf(r) ==
    [question |-> r.question, is_correct |-> r.is_correct, time_taken |-> r.time_taken,
     difficulty |-> r.question.difficulty]

AnsweredAfter == Append(in_flight.start.answered_questions, RecordOf(in_flight.record))
HistoryAfter ==
    trim_history(Append(in_flight.start.performance_history,
                        IF in_flight.record.is_correct THEN 1000 ELSE 0))

\* get_next_question wholly before record_answer, and wholly after it
NextThenRecord ==
    Outcome(in_flight.start.performance_history, in_flight.start.answered_questions)
RecordThenNext == Outcome(HistoryAfter, AnsweredAfter)

\* the old performance history together with the new answered record
OldMeanNewDifficulty == Outcome(in_flight.start.performance_history, AnsweredAfter)

Returned == [question |-> ret, queue |-> queue]

\* C31: record_answer and get_next_question interleaved a statement at a time: the
\* answered log and the history end as record_answer alone leaves them, and what
\* get_next_question returns and leaves queued is the outcome of one of the two serial
\* orders or the outcome of a reorder whose target comes from the mean of the old
\* performance history and the difficulty of the new answered record, which, as the
\* witness shows, neither serial order produces.
C31_RaceOutcomes ==
    BothReturned =>
        /\ answered_questions = AnsweredAfter
        /\ performance_history = HistoryAfter
        /\ Returned \in {NextThenRecord, RecordThenNext, OldMeanNewDifficulty}

\* both calls have returned and get_next_question returned a question that it returns
\* in neither serial order
C31_Witness ==
    /\ BothReturned
    /\ Returned = OldMeanNewDifficulty
    /\ Returned.question # NextThenRecord.question
    /\ Returned.question # RecordThenNext.question

----------------------------------------------------------------------------
(* The queue under all of its mutating calls, clear_queue included *)

QueueBatches == { <<b1, a1>>, <<i1>> }
QueueSingles == {b1}

QueueNext ==
    \/ \E questions \in QueueBatches :
          /\ stats.total_added + Len(questions) <= MaxAdded
          /\ AddQuestions(questions, TRUE)
          /\ QueueOnly
    \/ \E question \in QueueSingles, priority \in {"high"} :
          /\ stats.total_added < MaxAdded
          /\ AddQuestionPriority(question, priority)
          /\ QueueOnly
    \/ \E question \in QueueSingles, position \in {-1, 1} :
          /\ stats.total_added < MaxAdded
          /\ InsertAtPosition(question, position)
          /\ QueueOnly
    \/ GetNextQuestion /\ QueueOnly
    \/ \E question \in AnswerPool, is_correct \in BOOLEAN :
          /\ Len(answered_questions) < MaxAnswers
          /\ RecordAnswer(question, is_correct, 5)
          /\ QueueOnly
    \/ ShuffleQueue /\ QueueOnly
    \/ ClearQueue /\ QueueOnly

QueueSpec == Init /\ [][QueueNext]_vars

\* b is a with the elements of extra added
BagPlus(a, extra, b) ==
    /\ Len(b) = Len(a) + Len(extra)
    /\ \A x \in AllQuestions : Count(b, x) = Count(a, x) + Count(extra, x)

\* C32: every insertion adds exactly the inserted questions to the multiset queued,
\* get_next_question takes exactly the returned question out of it (reorder included),
\* shuffle_queue and record_answer leave the multiset and the length as they are, so
\* between clears inserted = queued + returned and no question is lost, duplicated or
\* served twice.
C32_Conservation ==
    [][ /\ call'.name = "add_questions" => BagPlus(queue, call'.args[1], queue')
        /\ call'.name \in {"add_question_priority", "insert_at_position"} =>
              BagPlus(queue, <<call'.args[1]>>, queue')
        /\ (NextCalled /\ queue # <<>>) =>
              (Len(ret') = 1 /\ BagPlus(queue', ret', queue))
        /\ (NextCalled /\ queue = <<>>) => (ret' = <<>> /\ queue' = <<>>)
        /\ call'.name \in {"shuffle_queue", "record_answer"} => SameBag(queue, queue')
        /\ call'.name = "clear_queue" => queue' = <<>> ]_vars

\* a reordering get_next_question served one of two copies of a question from behind
\* another question and left the other copy queued
C32_Witness ==
    /\ call.name = "get_next_question"
    /\ adaptive_mode
    /\ Len(performance_history) >= 3
    /\ Len(queue) = 2
    /\ ret = <<queue[1]>>
    /\ queue[2] # queue[1]
    /\ stats.total_added = 3

\* C33: in every reachable state stats.current_size is the queue length,
\* stats.total_added = stats.total_served + stats.current_size, and the four
\* per-difficulty counts sum to total_added.
C33_CountersAgree ==
    /\ stats.current_size = Len(queue)
    /\ stats.total_added = stats.total_served + stats.current_size
    /\ stats.difficulty_distribution["beginner"]
         + stats.difficulty_distribution["intermediate"]
         + stats.difficulty_distribution["advanced"]
         + stats.difficulty_distribution["expert"] = stats.total_added

\* three insertions of several kinds, one question served, and the beginner count
\* still counting the served insertions
C33_Witness ==
    /\ stats.total_added = 3
    /\ stats.total_served = 2
    /\ Len(queue) = 1
    /\ stats.difficulty_distribution["beginner"] = 2
    /\ queue[1].difficulty # "beginner"
    /\ call.name = "get_next_question"

----------------------------------------------------------------------------
(* QuestionQueue.get_queue_status and the dict the caller keeps *)

\* the dict get_queue_status builds: performance_trend and next_difficulties are new
\* lists; 'stats' is self.stats itself, not a copy
get_queue_status(q, adaptive, history, st) ==
    [queue_size |-> Len(q),
     performance_trend |-> IF history # <<>> THEN LastN(history, 5) ELSE <<>>,
     adaptive_mode |-> adaptive,
     stats |-> st,
     next_difficulties |-> [i \in 1..Len(Prefix(q, 5)) |-> q[i].difficulty]]

\* held_status keeps the dict as it was returned; its 'stats' entry refers to the
\* object self.stats, which the queue's later calls update in place
GetQueueStatus ==
    /\ ret' = get_queue_status(queue, adaptive_mode, performance_history, stats)
    /\ held_status' = <<ret'>>
    /\ Called("get_queue_status", <<>>)
    /\ UNCHANGED <<queue, adaptive_mode, answered_questions, performance_history, stats,
                   transition_cache, root, total_questions, inserted, removed, drawn,
                   active_sessions, in_flight>>

\* the dict the caller reads now: 'stats' read through the reference to self.stats
HeldStatusNow == [held_status[1] EXCEPT !.stats = stats]

StatusNext ==
    \/ /\ stats.total_added + Len(RaceQueue) <= MaxAdded
       /\ AddQuestions(RaceQueue, FALSE)
       /\ QueueOnly
    \/ \E question \in QueueSingles :
          /\ stats.total_added < MaxAdded
          /\ InsertAtPosition(question, 0)
          /\ QueueOnly
    \/ GetNextQuestion /\ QueueOnly
    \/ \E question \in AnswerPool :
          /\ Len(answered_questions) < MaxAnswers
          /\ RecordAnswer(question, FALSE, 5)
          /\ QueueOnly
    \/ ShuffleQueue /\ QueueOnly
    \/ GetQueueStatus

StatusSpec == Init /\ [][StatusNext]_vars

\* C34: the dict a get_queue_status call returned keeps, under every later add,
\* insert, next, record_answer and shuffle call, the values it had when it was
\* returned: stats block, performance_trend, next_difficulties and the rest.
C34_StatusIsSnapshot ==
    held_status # <<>> => HeldStatusNow = held_status[1]

\* every field of a returned status other than the stats block keeps its value
C34_OtherFieldsKept ==
    [][ (held_status # <<>> /\ call'.name # "get_queue_status") =>
          /\ held_status' = held_status
          /\ \A f \in {"queue_size", "performance_trend", "adaptive_mode",
                       "next_difficulties"} : HeldStatusNow'[f] = HeldStatusNow[f] ]_vars

----------------------------------------------------------------------------
(* The index under insert and remove alone: questions of two subjects, two of them
   with the same id, inserted any number of times, and removes of stored and of
   absent ids *)

x1 == Question(11, "Science", "Physics", "advanced")

IndexPool == {m1, m2, s1, x1}
IndexRemoveArgs == { IdStr(11), IdStr(12), IdStr(99) }

IndexNext ==
    \/ \E question \in IndexPool :
          /\ Len(inserted) < MaxInserts
          /\ AddQuestion(question)
          /\ TreeOnly
    \/ \E question_id \in IndexRemoveArgs : RemoveQuestion(question_id) /\ TreeOnly

IndexSpec == TreeSpecInit /\ [][IndexNext]_vars

\* the node holds no question, is of the given type and counts its children
InnerNode(node, node_type) ==
    /\ node.node_type = node_type
    /\ node.questions = <<>>
    /\ node.metadata.count = Cardinality(DOMAIN node.children)

\* C35: in every state reachable by insert and remove the tree is root -> subject ->
\* topic -> difficulty, only difficulty nodes hold questions, every stored question has
\* the subject, topic and difficulty of the keys on its path, and every node's count
\* is its number of children.
C35_TreeShape ==
    /\ InnerNode(root, "root")
    /\ \A s \in DOMAIN root.children :
         LET subject_node == root.children[s]
         IN  /\ InnerNode(subject_node, "subject")
             /\ \A t \in DOMAIN subject_node.children :
                  LET topic_node == subject_node.children[t]
                  IN  /\ InnerNode(topic_node, "topic")
                      /\ \A d \in DOMAIN topic_node.children :
                           LET difficulty_node == topic_node.children[d]
                           IN  /\ difficulty_node.node_type = "difficulty"
                               /\ DOMAIN difficulty_node.children = {}
                               /\ difficulty_node.metadata.count = 0
                               /\ \A i \in 1..Len(difficulty_node.questions) :
                                    /\ difficulty_node.questions[i].subject = s
                                    /\ difficulty_node.questions[i].topic = t
                                    /\ difficulty_node.questions[i].difficulty = d

\* two subjects hold questions after a repeated insert and a successful remove
C35_Witness ==
    /\ Cardinality(DOMAIN root.children) = 2
    /\ call.name = "remove_question"
    /\ ret = TRUE
    /\ \E q \in IndexPool : Count(inserted, q) = 2
    /\ removed
    /\ Len(Stored) = MaxInserts - 1

\* the nodes of a structure() result and what each reports but its question count
RECURSIVE StructureNodes(_)
StructureNodes(structure) ==
    [type |-> structure.type,
     value |-> structure.value,
     total_count |-> structure.total_count,
     children |-> [k \in DOMAIN structure.children |->
                      StructureNodes(structure.children[k])]]

\* the paths to the difficulty nodes and the question list at the end of a path
DifficultyPaths(tree_root) ==
    UNION { UNION { { <<s, t, d>> : d \in DOMAIN tree_root.children[s].children[t].children } :
                    t \in DOMAIN tree_root.children[s].children } :
            s \in DOMAIN tree_root.children }

QuestionsAt(tree_root, path) ==
    tree_root.children[path[1]].children[path[2]].children[path[3]].questions

\* C36: remove_question deletes no node: the subject, topic and difficulty nodes that
\* structure() reports are the same after it as before, also when it removed the last
\* question of a difficulty node; at most one question list changes, by one question,
\* and total_questions with it.
C36_RemoveKeepsNodes ==
    [][ RemoveCalled =>
          /\ StructureNodes(get_tree_structure(root')) =
                 StructureNodes(get_tree_structure(root))
          /\ DifficultyPaths(root') = DifficultyPaths(root)
          /\ Cardinality({path \in DifficultyPaths(root) :
                             QuestionsAt(root', path) # QuestionsAt(root, path)}) =
                 (IF ret' THEN 1 ELSE 0)
          /\ total_questions' = total_questions - (IF ret' THEN 1 ELSE 0)
          /\ Len(Stored') = Len(Stored) - (IF ret' THEN 1 ELSE 0) ]_vars

\* the only question of a difficulty node was removed and the node is still there
C36_Witness ==
    /\ call.name = "remove_question"
    /\ ret = TRUE
    /\ \E path \in DifficultyPaths(root) : QuestionsAt(root, path) = <<>>
    /\ \E path \in DifficultyPaths(root) : QuestionsAt(root, path) # <<>>

\* the questions of a list that have, and that do not have, the id question_id
WithId(questions, question_id) == SelectSeq(questions, LAMBDA q : IdStr(q.id) = question_id)
WithoutId(questions, question_id) == SelectSeq(questions, LAMBDA q : IdStr(q.id) # question_id)

\* len(tree.get_questions_by_criteria()), the query with no filter
UnfilteredCount == Len(get_questions_by_criteria(root, <<>>, <<>>, <<>>, <<>>))

\* C37: after any inserts and removes, repeated inserts of one question and removes of
\* absent ids included, total_questions is the number of questions stored in the tree,
\* the length of the unfiltered query; removing an id stored k >= 1 times removes
\* exactly one entry, leaving k - 1 with that id and every other question.
C37_CounterIsStoredCount ==
    /\ [](total_questions = UnfilteredCount /\ total_questions = Len(Stored))
    /\ [][ (RemoveCalled /\ StoredWithId(call'.args[1]) # <<>>) =>
              /\ ret' = TRUE
              /\ Len(WithId(Stored', call'.args[1])) = Len(WithId(Stored, call'.args[1])) - 1
              /\ WithoutId(Stored', call'.args[1]) = WithoutId(Stored, call'.args[1])
              /\ UnfilteredCount' = UnfilteredCount - 1 ]_vars

\* an id stored twice was removed once and one entry with it is still stored
C37_Witness ==
    /\ call.name = "remove_question"
    /\ ret = TRUE
    /\ Len(StoredWithId(call.args[1])) = 1
    /\ \E q \in IndexPool : Count(inserted, q) = 2
    /\ total_questions = 2

----------------------------------------------------------------------------
(* A quiz run to the end: the queue is loaded once, then only answers are recorded
   and next() is called, up to MaxLen times more than there are questions *)

DrainBatches == { <<b1>>, <<a1, b1>>, <<b1, i1, a1>> }

\* the caller's next() call, its result kept in drawn
DrainCall ==
    /\ stats.total_added > 0
    /\ Len(drawn) < stats.total_added + MaxLen
    /\ GetNextQuestion
    /\ drawn' = Append(drawn, ret')
    /\ TreeUnchanged

DrainNext ==
    \/ \E questions \in DrainBatches :
          /\ stats.total_added = 0
          /\ AddQuestions(questions, FALSE)
          /\ QueueOnly
    \/ DrainCall
    \/ \E question \in AnswerPool, is_correct \in BOOLEAN :
          /\ stats.total_added > 0
          /\ Len(answered_questions) < MaxAnswers
          /\ RecordAnswer(question, is_correct, 5)
          /\ QueueOnly

DrainSpec == Init /\ [][DrainNext]_vars

\* the caller goes on calling next()
DrainFair == DrainSpec /\ WF_vars(DrainCall)

\* C38: a queue loaded with n questions and given no more returns a question from each
\* of the first n next() calls and the empty signal from every later one, whatever
\* answers are recorded in between and whether or not the queue is reordered; after the
\* n-th call total_served is n and current_size is 0.
C38_Drains ==
    LET n == stats.total_added
    IN  /\ \A i \in 1..Len(drawn) : (drawn[i] # <<>>) <=> (i <= n)
        /\ Len(queue) = n - stats.total_served
        /\ stats.total_served = (IF Len(drawn) < n THEN Len(drawn) ELSE n)
        /\ Len(drawn) >= n => (queue = <<>> /\ stats.current_size = 0)

\* a loaded queue whose caller goes on calling next() ends up empty for good
C38_EventuallyDrained ==
    <>[](stats.total_added > 0 => (queue = <<>> /\ stats.total_served = stats.total_added))

\* three questions were served from a reordered queue, with answers in between, and
\* two more next() calls returned the empty signal
C38_Witness ==
    /\ stats.total_added = 3
    /\ Len(drawn) = 3 + MaxLen
    /\ drawn[1] # <<b1>>
    /\ Len(performance_history) >= 3
    /\ adaptive_mode
    /\ stats.total_served = 3
    /\ drawn[3 + MaxLen] = <<>>

----------------------------------------------------------------------------
(* The recommendation and the history (specification OptimizerSpec) *)

\* the histories a call is compared over: None or [], two short ones, and the lists
\* of three scores from every first to every last score among 0, 0.5 and 1: level,
\* improving and declining, with every trend factor from 0.5 to 1.5 in steps of 0.25
ComparedHistories ==
    { <<>>, <<1000>>, <<0, 1000>> } \cup
    { <<first, 500, last>> : first \in {0, 500, 1000}, last \in {0, 500, 1000} }

OptimalNextCalled == call'.name = "get_optimal_next_difficulty"

\* the call's key is not in the cache it runs on
CacheMiss ==
    cache_key(difficulty_map[call'.args[1]], call'.args[2]) \notin DOMAIN transition_cache

\* C39: on a cache that does not hold the call's key, the empty cache first of all,
\* get_optimal_next_difficulty returns, for every current level and score, the level
\* it returns for every other performance_history, absent, short, improving or
\* declining: the trend term adds the same amount to each candidate's value.
C39_HistoryNeverChangesChoice ==
    [][ (OptimalNextCalled /\ CacheMiss) =>
          \A history \in ComparedHistories :
              get_optimal_next_difficulty(transition_cache, call'.args[1],
                                          call'.args[2], history).difficulty = ret' ]_vars

\* the first call on an optimizer had a declining history and returned what the same
\* call returns with an improving history: from advanced at score 1.0, beginner
C39_Witness ==
    /\ call.name = "get_optimal_next_difficulty"
    /\ call.args = <<"advanced", 1000, <<1000, 1000, 0>> >>
    /\ DOMAIN transition_cache = {cache_key(2, 1000)}
    /\ ret = "beginner"
    /\ calculate_trend_factor(call.args[3]) # calculate_trend_factor(<<0, 0, 1000>>)
    /\ ret = get_optimal_next_difficulty(<<>>, "advanced", 1000, <<0, 0, 1000>>).difficulty

\* what the call returns when nothing is cached: the computation for its own
\* current_difficulty, performance_score and history
CacheFree(args) == get_optimal_next_difficulty(<<>>, args[1], args[2], args[3]).difficulty

\* C40: in every sequence of get_optimal_next_difficulty calls on one optimizer each
\* call returns what the computation without a cache returns for the call's own
\* current_difficulty and performance_score, also when an earlier call's score was
\* another one with the same two-decimal key.
C40_MemoizationTransparent ==
    [][ OptimalNextCalled => ret' = CacheFree(call'.args) ]_vars

====
